---- MODULE Spec2Model ----
(***************************************************************************)
(* Run orchestration core of terragrunt: the report registry               *)
(* (internal/report), the DefaultStack resolver and run dispatch            *)
(* (configstack/default_stack.go) and the scheduler the stack hands the     *)
(* modules to.                                                              *)
(*                                                                          *)
(* The specifications share the variables:                                  *)
(*   Spec        the Report API (NewRun, AddRun, GetRun, EndRun, SortRuns)  *)
(*   SummarySpec AddRun, EndRun, SortRuns and Summarize in sequence         *)
(*   RaceSpec    two goroutines calling the Report's methods step by step   *)
(*   LockSpec    the same calls, every lock operation a step                *)
(*   FileSpec    WriteCSV and WriteToFile with failing writes               *)
(*   RenderSpec  Summary.Write and TotalDurationString                      *)
(*   SchedSpec   DefaultStack.Run and the scheduler it dispatches to        *)
(*   ResolveSpec createStackForTerragruntConfigPaths and the resolver       *)
(*   DependentsSpec ListStackDependentModules, one pass of its loop a step  *)
(***************************************************************************)
EXTENDS Integers, Sequences, FiniteSets, TLC

(***************************************************************************)
(* Bounds of the model.                                                     *)
(***************************************************************************)
\* Largest value the clock takes. The zero time.Time is 0, time.Now() >= 1.
MaxTime == 2
\* Number of Run objects NewRun may allocate in one behaviour.
MaxRuns == 2
\* Longest list of EndOptions handed to EndRun.
MaxOpts == 2

(***************************************************************************)
(* Paths. A path is the sequence of its components; an absolute path starts *)
(* with the root component "/".  <<"/", "w", "a">> is /w/a, <<"w", "a">> is *)
(* w/a, <<>> is the empty string.                                           *)
(***************************************************************************)
Root == "/"

\* filepath.IsAbs on a Unix build: the path starts with the separator.
IsAbs(path) == Len(path) > 0 /\ path[1] = Root

\* util.HasPathPrefix: component-wise prefix.
HasPathPrefix(path, prefix) ==
    /\ Len(prefix) <= Len(path)
    /\ \A i \in 1..Len(prefix) : path[i] = prefix[i]

WorkingDir == <<Root, "w">>
PA == <<Root, "w", "a">>
PB == <<Root, "w", "b">>
PC == <<Root, "w", "c">>
PD == <<Root, "w", "d">>
\* Units outside the working directory.
PX == <<Root, "x", "e">>
PY == <<Root, "x", "f">>
PZ == <<Root, "x", "g">>

\* Paths handed to the Report API: absolute ones and relative ones.
AbsPaths == {PA, PB}
RelPaths == {<<"w", "a">>}
ReportPaths == AbsPaths \cup RelPaths

(***************************************************************************)
(* internal/report: values.                                                 *)
(***************************************************************************)
ResultSucceeded == "succeeded"
ResultFailed == "failed"
ResultEarlyExit == "early exit"
ResultExcluded == "excluded"
\* The zero value of Result, on a Run that was never ended.
ResultNone == ""
Results == {ResultSucceeded, ResultFailed, ResultEarlyExit, ResultExcluded}

ReasonRetrySucceeded == "retry succeeded"
ReasonErrorIgnored == "error ignored"
ReasonRunError == "run error"
ReasonExcludeDir == "--exclude-dir"
ReasonExcludeBlock == "exclude block"
ReasonEarlyExit == "early exit"
Reasons == {ReasonRetrySucceeded, ReasonErrorIgnored, ReasonRunError,
            ReasonExcludeDir, ReasonExcludeBlock, ReasonEarlyExit}

\* A nil *Reason or *Cause.
Nil == "<nil>"
\* The zero time.Time.
ZeroTime == 0

ErrNone == "nil"
ErrPathMustBeAbsolute == "report run path must be absolute"
ErrRunAlreadyExists == "run already exists"
ErrRunNotFound == "run not found in report"

\* type Run struct
MkRun(name, started) ==
    [Name |-> name, Started |-> started, Ended |-> ZeroTime,
     Result |-> ResultNone, Reason |-> Nil, Cause |-> Nil]

\* The nil *Run.
NilRun == MkRun(<<>>, ZeroTime)

(***************************************************************************)
(* EndOptions: closures over a *Run.                                        *)
(***************************************************************************)
WithResult(result) == [kind |-> "result", v |-> result]

WithReason(reason) == [kind |-> "reason", v |-> reason]

withCause(name) == [kind |-> "cause", v |-> name]

WithCauseRetryBlock(name) == withCause(name)

WithCauseIgnoreBlock(name) == withCause(name)

WithCauseExcludeBlock(name) == withCause(name)

WithCauseAncestorExit(name) == withCause(name)

\* endOption(run)
ApplyOption(run, o) ==
    CASE o.kind = "result" -> [run EXCEPT !.Result = o.v]
      [] o.kind = "reason" -> [run EXCEPT !.Reason = o.v]
      [] o.kind = "cause" -> [run EXCEPT !.Cause = o.v]

\* for _, endOption := range endOptions { endOption(run) }
RECURSIVE ApplyOptions(_, _)
ApplyOptions(run, opts) ==
    IF opts = <<>> THEN run
    ELSE ApplyOptions(ApplyOption(run, Head(opts)), Tail(opts))

\* The options the model's callers hand to EndRun.
EndOpts ==
    {WithResult(ResultFailed), WithResult(ResultEarlyExit),
     WithReason(ReasonRunError), WithCauseRetryBlock("blk")}

OptLists ==
    UNION {[1..n -> EndOpts] : n \in 0..MaxOpts}

(***************************************************************************)
(* internal/report: the operations, as functions of the Runs list.          *)
(***************************************************************************)
\* The index of the first Run named name, 0 when there is none.
IndexOfName(runs, name) ==
    IF \E i \in 1..Len(runs) : runs[i].Name = name
    THEN CHOOSE i \in 1..Len(runs) :
            /\ runs[i].Name = name
            /\ \A j \in 1..(i - 1) : runs[j].Name # name
    ELSE 0

NewRunMutant(path, t) ==
    [run |-> MkRun(path, t), err |-> ErrNone]

\* func NewRun(path string) (*Run, error)
NewRun(path, t) ==
    IF ~IsAbs(path)
    THEN [run |-> NilRun, err |-> ErrPathMustBeAbsolute]
    ELSE [run |-> MkRun(path, t), err |-> ErrNone]

AddRunMutant(runs, run) ==
    [runs |-> Append(runs, run), err |-> ErrNone]

\* func (r *Report) AddRun(run *Run) error
AddRun(runs, run) ==
    IF IndexOfName(runs, run.Name) # 0
    THEN [runs |-> runs, err |-> ErrRunAlreadyExists]
    ELSE [runs |-> Append(runs, run), err |-> ErrNone]

GetRunMutant(runs, path) ==
    IF ~IsAbs(path)
    THEN [run |-> NilRun, idx |-> 0, err |-> ErrPathMustBeAbsolute]
    ELSE IF Len(runs) = 0
    THEN [run |-> NilRun, idx |-> 0, err |-> ErrRunNotFound]
    ELSE [run |-> runs[1], idx |-> 1, err |-> ErrNone]

\* func (r *Report) GetRun(path string) (*Run, error)
GetRun(runs, path) ==
    IF ~IsAbs(path)
    THEN [run |-> NilRun, idx |-> 0, err |-> ErrPathMustBeAbsolute]
    ELSE LET i == IndexOfName(runs, path) IN
         IF i = 0
         THEN [run |-> NilRun, idx |-> 0, err |-> ErrRunNotFound]
         ELSE [run |-> runs[i], idx |-> i, err |-> ErrNone]

EndRunNoDefault(runs, path, opts, t) ==
    IF ~IsAbs(path)
    THEN [runs |-> runs, err |-> ErrPathMustBeAbsolute]
    ELSE LET i == IndexOfName(runs, path) IN
         IF i = 0
         THEN [runs |-> runs, err |-> ErrRunNotFound]
         ELSE [runs |-> [runs EXCEPT ![i] =
                            ApplyOptions([@ EXCEPT !.Ended = t], opts)],
               err |-> ErrNone]

EndRunLookupFirst(runs, path, opts, t) ==
    LET i == IndexOfName(runs, path) IN
    IF i = 0
    THEN [runs |-> runs, err |-> ErrRunNotFound]
    ELSE [runs |-> [runs EXCEPT ![i] =
                       ApplyOptions([@ EXCEPT !.Ended = t,
                                              !.Result = ResultSucceeded],
                                    opts)],
          err |-> ErrNone]

EndRunStaleClock(runs, path, opts, t) ==
    IF ~IsAbs(path)
    THEN [runs |-> runs, err |-> ErrPathMustBeAbsolute]
    ELSE LET i == IndexOfName(runs, path) IN
         IF i = 0
         THEN [runs |-> runs, err |-> ErrRunNotFound]
         ELSE [runs |-> [runs EXCEPT ![i] =
                            ApplyOptions([@ EXCEPT !.Ended = 1,
                                                   !.Result = ResultSucceeded],
                                         opts)],
               err |-> ErrNone]

EndRunWithoutOptions(runs, path, opts, t) ==
    IF ~IsAbs(path)
    THEN [runs |-> runs, err |-> ErrPathMustBeAbsolute]
    ELSE LET i == IndexOfName(runs, path) IN
         IF i = 0
         THEN [runs |-> runs, err |-> ErrRunNotFound]
         ELSE [runs |-> [runs EXCEPT ![i] =
                            [@ EXCEPT !.Ended = t, !.Result = ResultSucceeded]],
               err |-> ErrNone]

EndRunKeepingResult(runs, path, opts, t) ==
    IF ~IsAbs(path)
    THEN [runs |-> runs, err |-> ErrPathMustBeAbsolute]
    ELSE LET i == IndexOfName(runs, path) IN
         IF i = 0
         THEN [runs |-> runs, err |-> ErrRunNotFound]
         ELSE [runs |-> [runs EXCEPT ![i] =
                            ApplyOptions([@ EXCEPT !.Ended = t,
                                                   !.Result = IF @ = ResultNone
                                                              THEN ResultSucceeded
                                                              ELSE @],
                                         opts)],
               err |-> ErrNone]

\* func (r *Report) EndRun(path string, endOptions ...EndOption) error
EndRun(runs, path, opts, t) ==
    IF ~IsAbs(path)
    THEN [runs |-> runs, err |-> ErrPathMustBeAbsolute]
    ELSE LET i == IndexOfName(runs, path) IN
         IF i = 0
         THEN [runs |-> runs, err |-> ErrRunNotFound]
         ELSE [runs |-> [runs EXCEPT ![i] =
                            ApplyOptions([@ EXCEPT !.Ended = t,
                                                   !.Result = ResultSucceeded],
                                         opts)],
               err |-> ErrNone]

\* a.Started.Compare(b.Started)
CompareStarted(a, b) ==
    IF a.Started < b.Started THEN -1
    ELSE IF a.Started > b.Started THEN 1
    ELSE 0

\* The permutations of 1..n.
Perms(n) ==
    {f \in [1..n -> 1..n] : \A i, j \in 1..n : i # j => f[i] # f[j]}

\* func (r *Report) SortRuns(): slices.SortFunc orders the slice by the
\* comparison and "is not guaranteed to be stable": every arrangement of
\* the same elements that the comparison admits is a possible outcome.
SortRunsOutcomes(runs) ==
    {[i \in 1..Len(runs) |-> runs[p[i]]] : p \in
        {q \in Perms(Len(runs)) :
            \A i, j \in 1..Len(runs) :
                i < j => CompareStarted(runs[q[i]], runs[q[j]]) <= 0}}

(***************************************************************************)
(* State.                                                                   *)
(***************************************************************************)
VARIABLES
    Runs,      \* Report.Runs: the report's Run objects, in order
    pending,   \* Run objects NewRun returned that no AddRun has appended
    now,       \* the last value read from the clock
    last,      \* the last Report call: its arguments and what it returned
    stack,     \* DefaultStack: terragruntOptions and modules
    sch,       \* the scheduler entry point Run dispatched to
    node,      \* per module: the running module's status and outcome
    cfg,       \* the configuration tree the resolver reads
    res,       \* what createStackForTerragruntConfigPaths returned
    dependents, \* the ListStackDependentModules call: its map and its passes
    summary,   \* the Summary the last Summarize returned
    out,       \* what the last rendering or export wrote
    mu,        \* Report.mu: the goroutines that hold the report's lock
    thr,       \* per goroutine: the Report call it is in and where
    fs,        \* the files WriteToFile touches
    wtf        \* the WriteToFile call under way

reportVars == <<Runs, pending, now, last>>

schedVars == <<stack, sch, node>>

resolveVars == <<cfg, res, dependents>>

summaryVars == <<summary, out>>

lockVars == <<mu, thr>>

fileVars == <<fs, wtf>>

\* What the summary, the concurrent callers and the export add to the state.
reportIOVars == <<summaryVars, lockVars, fileVars>>

vars == <<Runs, pending, now, last, stack, sch, node, cfg, res, dependents,
          summary, out, mu, thr, fs, wtf>>

Call(op, path, run, err) ==
    [op |-> op, path |-> path, run |-> run, err |-> err]

NoCall == Call("none", <<>>, NilRun, ErrNone)

\* NewReport(): an empty Runs list.
ReportInit ==
    /\ Runs = <<>>
    /\ pending = {}
    /\ now = 1
    /\ last = NoCall

\* No stack, no scheduler run, no resolution.
SchedIdle ==
    /\ stack = <<>>
    /\ sch = <<>>
    /\ node = <<>>

ResolveIdle ==
    /\ cfg = <<>>
    /\ res = <<>>
    /\ dependents = <<>>

\* No summary taken, no concurrent callers, no export.
ReportIOIdle ==
    /\ summary = <<>>
    /\ out = <<>>
    /\ mu = <<>>
    /\ thr = <<>>
    /\ fs = <<>>
    /\ wtf = <<>>

RunObjects == pending \cup {Runs[i] : i \in 1..Len(Runs)}

\* run, err := report.NewRun(path)
NewRunOp ==
    \E path \in ReportPaths, t \in now..MaxTime :
        LET r == NewRun(path, t) IN
        /\ Len(Runs) + Cardinality(pending) < MaxRuns
        /\ now' = t
        /\ pending' = IF r.err = ErrNone THEN pending \cup {r.run} ELSE pending
        /\ last' = Call("NewRun", path, r.run, r.err)
        /\ UNCHANGED <<Runs, schedVars, resolveVars, reportIOVars>>

\* err := r.AddRun(run), with a Run some NewRun returned
AddRunOp ==
    \E run \in RunObjects :
        LET r == AddRun(Runs, run) IN
        /\ Runs' = r.runs
        /\ pending' = IF r.err = ErrNone THEN pending \ {run} ELSE pending
        /\ last' = Call("AddRun", run.Name, run, r.err)
        /\ UNCHANGED <<now, schedVars, resolveVars, reportIOVars>>

\* run, err := r.GetRun(path)
GetRunOp ==
    \E path \in ReportPaths :
        LET r == GetRun(Runs, path) IN
        /\ last' = Call("GetRun", path, r.run, r.err)
        /\ UNCHANGED <<Runs, pending, now, schedVars, resolveVars, reportIOVars>>

\* err := r.EndRun(path, opts...)
EndRunOp ==
    \E path \in ReportPaths, opts \in OptLists, t \in now..MaxTime :
        LET r == EndRun(Runs, path, opts, t) IN
        /\ Runs' = r.runs
        /\ now' = t
        /\ last' = Call("EndRun", path, NilRun, r.err)
        /\ UNCHANGED <<pending, schedVars, resolveVars, reportIOVars>>

\* r.SortRuns()
SortRunsOp ==
    \E sorted \in SortRunsOutcomes(Runs) :
        /\ Runs' = sorted
        /\ last' = Call("SortRuns", <<>>, NilRun, ErrNone)
        /\ UNCHANGED <<pending, now, schedVars, resolveVars, reportIOVars>>

Init ==
    /\ ReportInit
    /\ SchedIdle
    /\ ResolveIdle
    /\ ReportIOIdle

Next ==
    \/ NewRunOp
    \/ AddRunOp
    \/ GetRunOp
    \/ EndRunOp
    \/ SortRunsOp

Spec == Init /\ [][Next]_vars

(***************************************************************************)
(* internal/report: Summary.                                                *)
(*                                                                          *)
(* firstRunStart and lastRunEnd are pointers into Run objects (&run.Started, *)
(* &run.Ended). A Run of the report is identified by its Name, so a pointer *)
(* is the Name of the Run it points into and reading through it reads the   *)
(* Run as it is now.                                                        *)
(***************************************************************************)
\* A nil *time.Time.
NilPtr == <<>>

DefaultPadder == " "
\* The values of TMP_UNDOCUMENTED_REPORT_PADDER a caller may have set; the
\* empty string is the variable not being set.
PadderEnv == {"", "."}

\* summary := &Summary{TotalUnits: len(r.Runs), padder: " "}, then the
\* override of the padder.
NewSummary(totalUnits, env) ==
    [TotalUnits |-> totalUnits, UnitsSucceeded |-> 0, UnitsFailed |-> 0,
     EarlyExits |-> 0, Excluded |-> 0,
     firstRunStart |-> NilPtr, lastRunEnd |-> NilPtr,
     padder |-> IF env # "" THEN env ELSE DefaultPadder]

\* *s.firstRunStart and *s.lastRunEnd, read in the Runs list runs.
StartedAt(runs, ptr) == runs[IndexOfName(runs, ptr)].Started
EndedAt(runs, ptr) == runs[IndexOfName(runs, ptr)].Ended

CountResultWithDefault(s, result) ==
    CASE result = ResultSucceeded -> [s EXCEPT !.UnitsSucceeded = @ + 1]
      [] result = ResultFailed -> [s EXCEPT !.UnitsFailed = @ + 1]
      [] result = ResultEarlyExit -> [s EXCEPT !.EarlyExits = @ + 1]
      [] result = ResultExcluded -> [s EXCEPT !.Excluded = @ + 1]
      [] OTHER -> [s EXCEPT !.UnitsSucceeded = @ + 1]

\* The switch of Update.
CountResult(s, result) ==
    CASE result = ResultSucceeded -> [s EXCEPT !.UnitsSucceeded = @ + 1]
      [] result = ResultFailed -> [s EXCEPT !.UnitsFailed = @ + 1]
      [] result = ResultEarlyExit -> [s EXCEPT !.EarlyExits = @ + 1]
      [] result = ResultExcluded -> [s EXCEPT !.Excluded = @ + 1]
      [] OTHER -> s

UpdateKeepsLast(s, run, runs) ==
    [CountResult(s, run.Result) EXCEPT
        !.firstRunStart = run.Name, !.lastRunEnd = run.Name]

\* func (s *Summary) Update(run *Run), the Run objects being those of runs.
Update(s, run, runs) ==
    [CountResult(s, run.Result) EXCEPT
        !.firstRunStart =
            IF @ = NilPtr \/ run.Started < StartedAt(runs, @)
            THEN run.Name ELSE @,
        !.lastRunEnd =
            IF @ = NilPtr \/ run.Ended > EndedAt(runs, @)
            THEN run.Name ELSE @]

\* for _, run := range r.Runs { summary.Update(run) }, from the k-th Run on.
RECURSIVE UpdateAll(_, _, _)
UpdateAll(s, runs, k) ==
    IF k > Len(runs) THEN s
    ELSE UpdateAll(Update(s, runs[k], runs), runs, k + 1)

\* func (r *Report) Summarize() *Summary, with no other goroutine at work.
Summarize(runs, env) == UpdateAll(NewSummary(Len(runs), env), runs, 1)

\* func (s *Summary) TotalDuration() time.Duration, the Run objects being
\* those of runs.
TotalDuration(s, runs) ==
    IF s.firstRunStart = NilPtr \/ s.lastRunEnd = NilPtr THEN 0
    ELSE EndedAt(runs, s.lastRunEnd) - StartedAt(runs, s.firstRunStart)

\* What the callers of the summary's specification pass to EndRun.
SummaryEndOpts ==
    {<<>>} \cup {<<WithResult(result)>> : result \in Results}

\* Two Runs created by NewRun and not yet added, the clock at the later one.
SummaryStart ==
    /\ \E s1 \in 1..MaxTime, s2 \in 1..MaxTime :
        /\ pending = {MkRun(PA, s1), MkRun(PB, s2)}
        /\ now = IF s1 > s2 THEN s1 ELSE s2
    /\ Runs = <<>>
    /\ last = NoCall
    /\ SchedIdle
    /\ ResolveIdle
    /\ ReportIOIdle

\* err := r.AddRun(run)
SummaryAddRunOp ==
    \E run \in pending :
        LET r == AddRun(Runs, run) IN
        /\ Runs' = r.runs
        /\ pending' = IF r.err = ErrNone THEN pending \ {run} ELSE pending
        /\ last' = Call("AddRun", <<>>, NilRun, r.err)
        /\ UNCHANGED <<now, schedVars, resolveVars, reportIOVars>>

\* err := r.EndRun(path, opts...)
SummaryEndRunOp ==
    \E path \in AbsPaths, opts \in SummaryEndOpts, t \in now..MaxTime :
        LET r == EndRun(Runs, path, opts, t) IN
        /\ Runs' = r.runs
        /\ now' = t
        /\ last' = Call("EndRun", <<>>, NilRun, r.err)
        /\ UNCHANGED <<pending, schedVars, resolveVars, reportIOVars>>

\* summary := r.Summarize()
SummarizeOp ==
    \E env \in PadderEnv :
        /\ summary' = Summarize(Runs, env)
        /\ last' = Call("Summarize", <<>>, NilRun, ErrNone)
        /\ UNCHANGED <<Runs, pending, now, schedVars, resolveVars,
                       out, lockVars, fileVars>>

SummaryNext ==
    \/ SummaryAddRunOp
    \/ SummaryEndRunOp
    \/ SortRunsOp
    \/ SummarizeOp

\* AddRun, EndRun, SortRuns and Summarize, called one after the other.
SummarySpec == SummaryStart /\ [][SummaryNext]_vars

(***************************************************************************)
(* internal/report: goroutines calling one Report.                          *)
(*                                                                          *)
(* A call is a sequence of steps; what a call does between taking and       *)
(* releasing Report.mu is one step unless it is a loop over Runs that       *)
(* another call can meet unlocked, which is one step per iteration.         *)
(* r.Runs is a slice: a call that loops over it reads the slice header once *)
(* and then the backing array, which append replaces when it is full.       *)
(***************************************************************************)
Goroutines == {"g1", "g2"}

\* sync.RWMutex: the goroutine holding the write lock, those holding the
\* read lock.
NoLock == [w |-> "", r |-> {}]

CanLock(m) == m.w = "" /\ m.r = {}

CanRLock(m) == m.w = ""

\* A goroutine's call: op is the method, pc the step it is at; run and path
\* are the arguments; n, i, j, att and arr are the loop over Runs (the length
\* read from the slice header, the indices, whether the backing array is
\* still the Report's and the array if it is not); sum is the Summary under
\* construction; seen is every value Runs has had since the call; file tells
\* that WriteToFile made the call of WriteCSV and rows is the Started column
\* of the rows written so far.
IdleFrame ==
    [op |-> "none", pc |-> "done", run |-> NilRun, path |-> <<>>,
     n |-> 0, i |-> 0, j |-> 0, att |-> TRUE, arr |-> <<>>,
     sum |-> <<>>, seen |-> {}, file |-> FALSE, rows |-> <<>>]

\* append allocates a new backing array when the length has reached the
\* capacity, which grows 0, 1, 2, 4.
Reallocates(len) == len \in {0, 1, 2, 4}

\* data[k] of the loop of frame f.
View(f, runs, k) ==
    IF f.att THEN runs[k] ELSE runs[IndexOfName(runs, f.arr[k])]

\* The Runs list with the elements k and k - 1 exchanged.
Swapped(runs, k) ==
    [x \in 1..Len(runs) |->
        IF x = k THEN runs[k - 1] ELSE IF x = k - 1 THEN runs[k] ELSE runs[x]]

\* What a step of another goroutine does to the call of frame f: a loop keeps
\* the old backing array when append replaced the Report's, and a Summarize
\* under way has one more value of Runs behind it.
Bystander(f, runs, realloc) ==
    [f EXCEPT
        !.att = IF realloc /\ f.pc \in {"sort", "update", "rows"} THEN FALSE ELSE @,
        !.arr = IF realloc /\ f.att /\ f.pc \in {"sort", "update", "rows"}
                THEN [k \in 1..f.n |-> Runs[k].Name] ELSE @,
        !.seen = IF f.op = "Summarize" /\ f.pc # "done" THEN @ \cup {runs} ELSE @]

\* The frames after goroutine g moved to frame f and left Runs as runs.
Threads(g, f, runs, realloc) ==
    [h \in Goroutines |-> IF h = g THEN f ELSE Bystander(thr[h], runs, realloc)]

\* The paths the concurrent callers pass to EndRun and GetRun.
RacePaths == {PA, PC}

\* A report of two Runs, the first started last and ended, and a Run that
\* NewRun returned and no AddRun has appended; or an empty report.
RaceStart ==
    /\ Runs \in {<<>>, <<[MkRun(PA, 2) EXCEPT !.Ended = 2, !.Result = ResultSucceeded], MkRun(PB, 1)>>}
    /\ pending = {MkRun(PC, 1)}
    /\ now = 2
    /\ last = NoCall
    /\ mu = NoLock
    /\ thr = [g \in Goroutines |-> IdleFrame]
    /\ summary = <<>>
    /\ out = <<>>
    /\ fs = <<>>
    /\ wtf = <<>>
    /\ SchedIdle
    /\ ResolveIdle

raceFrame == <<last, now, summary, out, fileVars, schedVars, resolveVars>>

\* AddRun: r.mu.Lock()
RaceAddRunLock ==
    \E g \in Goroutines, run \in pending :
        /\ thr[g].pc = "done"
        /\ CanLock(mu)
        /\ mu' = [mu EXCEPT !.w = g]
        /\ thr' = Threads(g, [IdleFrame EXCEPT !.op = "AddRun", !.pc = "body", !.run = run], Runs, FALSE)
        /\ UNCHANGED <<Runs, pending, raceFrame>>

\* AddRun: the scan, the append and the deferred r.mu.Unlock()
RaceAddRunBody ==
    \E g \in Goroutines :
        LET r == AddRun(Runs, thr[g].run) IN
        /\ thr[g].op = "AddRun" /\ thr[g].pc = "body"
        /\ Runs' = r.runs
        /\ pending' = IF r.err = ErrNone THEN pending \ {thr[g].run} ELSE pending
        /\ mu' = NoLock
        /\ thr' = Threads(g, IdleFrame, r.runs, r.err = ErrNone /\ Reallocates(Len(Runs)))
        /\ UNCHANGED raceFrame

\* EndRun: r.mu.Lock()
RaceEndRunLock ==
    \E g \in Goroutines, path \in RacePaths :
        /\ thr[g].pc = "done"
        /\ CanLock(mu)
        /\ mu' = [mu EXCEPT !.w = g]
        /\ thr' = Threads(g, [IdleFrame EXCEPT !.op = "EndRun", !.pc = "body", !.path = path], Runs, FALSE)
        /\ UNCHANGED <<Runs, pending, raceFrame>>

\* EndRun: the lookup, the assignments under run.mu and the deferred unlocks
RaceEndRunBody ==
    \E g \in Goroutines :
        LET r == EndRun(Runs, thr[g].path, <<>>, now) IN
        /\ thr[g].op = "EndRun" /\ thr[g].pc = "body"
        /\ Runs' = r.runs
        /\ mu' = NoLock
        /\ thr' = Threads(g, IdleFrame, r.runs, FALSE)
        /\ UNCHANGED <<pending, raceFrame>>

\* GetRun: r.mu.RLock()
RaceGetRunRLock ==
    \E g \in Goroutines, path \in RacePaths :
        /\ thr[g].pc = "done"
        /\ CanRLock(mu)
        /\ mu' = [mu EXCEPT !.r = @ \cup {g}]
        /\ thr' = Threads(g, [IdleFrame EXCEPT !.op = "GetRun", !.pc = "body", !.path = path], Runs, FALSE)
        /\ UNCHANGED <<Runs, pending, raceFrame>>

\* GetRun: the lookup and the deferred r.mu.RUnlock()
RaceGetRunBody ==
    \E g \in Goroutines :
        /\ thr[g].op = "GetRun" /\ thr[g].pc = "body"
        /\ mu' = [mu EXCEPT !.r = @ \ {g}]
        /\ thr' = Threads(g, IdleFrame, Runs, FALSE)
        /\ UNCHANGED <<Runs, pending, raceFrame>>

\* r.SortRuns(): slices.SortFunc(r.Runs, ...) reads the slice header; no lock
\* is taken.
RaceSortRunsCall ==
    \E g \in Goroutines :
        /\ thr[g].pc = "done"
        /\ thr' = Threads(g, [IdleFrame EXCEPT !.op = "SortRuns", !.pc = "sort", !.n = Len(Runs), !.i = 2, !.j = 2], Runs, FALSE)
        /\ UNCHANGED <<Runs, pending, mu, raceFrame>>

\* WriteToFile: r.mu.Lock(); r.SortRuns()
RaceWriteToFileLock ==
    \E g \in Goroutines :
        /\ thr[g].pc = "done"
        /\ CanLock(mu)
        /\ mu' = [mu EXCEPT !.w = g]
        /\ thr' = Threads(g, [IdleFrame EXCEPT !.op = "WriteToFile", !.pc = "sort", !.n = Len(Runs), !.i = 2, !.j = 2], Runs, FALSE)
        /\ UNCHANGED <<Runs, pending, raceFrame>>

\* The frame after one step of the insertion sort slices.SortFunc runs on up
\* to 12 elements: one comparison and the swap it leads to.
SortAdvance(f, runs) ==
    IF f.j > 1 /\ CompareStarted(View(f, runs, f.j), View(f, runs, f.j - 1)) < 0
    THEN [f EXCEPT !.j = @ - 1,
                   !.arr = IF f.att THEN @ ELSE Swapped(@, f.j)]
    ELSE [f EXCEPT !.i = @ + 1, !.j = f.i + 1]

\* What that step leaves in the Report's Runs.
SortEffect(f, runs) ==
    IF /\ f.att
       /\ f.j > 1
       /\ CompareStarted(runs[f.j], runs[f.j - 1]) < 0
    THEN Swapped(runs, f.j)
    ELSE runs

\* slices.SortFunc: a step of the sort
RaceSortStep ==
    \E g \in Goroutines :
        /\ thr[g].pc = "sort"
        /\ thr[g].i <= thr[g].n
        /\ Runs' = SortEffect(thr[g], Runs)
        /\ thr' = Threads(g, SortAdvance(thr[g], Runs), SortEffect(thr[g], Runs), FALSE)
        /\ UNCHANGED <<pending, mu, raceFrame>>

\* slices.SortFunc returns: SortRuns returns, WriteToFile goes on to
\* r.mu.Unlock()
RaceSortReturn ==
    \E g \in Goroutines :
        /\ thr[g].pc = "sort"
        /\ thr[g].i > thr[g].n
        /\ mu' = IF thr[g].op = "WriteToFile" THEN NoLock ELSE mu
        /\ thr' = Threads(g, IF thr[g].op = "WriteToFile" THEN [IdleFrame EXCEPT !.op = "WriteToFile", !.pc = "rlock"] ELSE IdleFrame, Runs, FALSE)
        /\ UNCHANGED <<Runs, pending, raceFrame>>

\* WriteCSV, called by WriteToFile or directly: r.mu.RLock() and the header
RaceWriteCSVRLock ==
    \E g \in Goroutines :
        /\ thr[g].pc = "done" \/ thr[g].pc = "rlock"
        /\ CanRLock(mu)
        /\ mu' = [mu EXCEPT !.r = @ \cup {g}]
        /\ thr' = Threads(g, [IdleFrame EXCEPT !.op = "WriteCSV", !.pc = "rows", !.n = Len(Runs), !.i = 1, !.file = (thr[g].pc = "rlock")], Runs, FALSE)
        /\ UNCHANGED <<Runs, pending, raceFrame>>

\* WriteCSV: one iteration of for _, run := range r.Runs, or the return with
\* the deferred r.mu.RUnlock()
RaceWriteCSVRow ==
    \E g \in Goroutines :
        /\ thr[g].pc = "rows"
        /\ mu' = IF thr[g].i > thr[g].n THEN [mu EXCEPT !.r = @ \ {g}] ELSE mu
        /\ thr' = Threads(g, IF thr[g].i > thr[g].n THEN IdleFrame ELSE [thr[g] EXCEPT !.i = @ + 1, !.rows = Append(@, View(thr[g], Runs, thr[g].i).Started)], Runs, FALSE)
        /\ UNCHANGED <<Runs, pending, raceFrame>>

\* Summarize: TotalUnits: len(r.Runs) and the padder; no lock is taken.
RaceSummarizeCall ==
    \E g \in Goroutines :
        /\ thr[g].pc = "done"
        /\ thr' = Threads(g, [IdleFrame EXCEPT !.op = "Summarize", !.pc = "range", !.sum = NewSummary(Len(Runs), ""), !.seen = {Runs}], Runs, FALSE)
        /\ UNCHANGED <<Runs, pending, mu, raceFrame>>

\* Summarize: if len(r.Runs) == 0 { return summary }, else the range
\* statement reads the slice header
RaceSummarizeRange ==
    \E g \in Goroutines :
        /\ thr[g].op = "Summarize" /\ thr[g].pc = "range"
        /\ thr' = Threads(g, IF Len(Runs) = 0 THEN [thr[g] EXCEPT !.pc = "done"] ELSE [thr[g] EXCEPT !.pc = "update", !.n = Len(Runs), !.i = 1], Runs, FALSE)
        /\ UNCHANGED <<Runs, pending, mu, raceFrame>>

\* Summarize: summary.Update(run) under run.mu.RLock(), and the return after
\* the last one
RaceSummarizeUpdate ==
    \E g \in Goroutines :
        /\ thr[g].op = "Summarize" /\ thr[g].pc = "update"
        /\ thr' = Threads(g, [thr[g] EXCEPT !.sum = Update(@, View(thr[g], Runs, thr[g].i), Runs), !.i = @ + 1, !.pc = IF thr[g].i = thr[g].n THEN "done" ELSE "update"], Runs, FALSE)
        /\ UNCHANGED <<Runs, pending, mu, raceFrame>>

RaceNext ==
    \/ RaceAddRunLock
    \/ RaceAddRunBody
    \/ RaceEndRunLock
    \/ RaceEndRunBody
    \/ RaceGetRunRLock
    \/ RaceGetRunBody
    \/ RaceSortRunsCall
    \/ RaceWriteToFileLock
    \/ RaceSortStep
    \/ RaceSortReturn
    \/ RaceWriteCSVRLock
    \/ RaceWriteCSVRow
    \/ RaceSummarizeCall
    \/ RaceSummarizeRange
    \/ RaceSummarizeUpdate

\* Two goroutines calling the Report's methods at the same time.
RaceSpec == RaceStart /\ [][RaceNext]_vars

(***************************************************************************)
(* internal/report: the locks of the calls, lock by lock.                   *)
(*                                                                          *)
(* Report.mu and the mu of every Run are sync.RWMutex. Lock() announces the *)
(* writer, which keeps new readers out, and returns when the readers that   *)
(* hold the lock have left; RLock() waits while a writer is announced. A    *)
(* call is a sequence of steps, one per lock operation that can wait.       *)
(* WriteToFile's os.CreateTemp, Close and Rename touch no lock and are left *)
(* out. Summarize reads Runs without a lock: the Run it meets at an index   *)
(* is any Run of the report.                                                *)
(***************************************************************************)
Unlocked == [w |-> "", held |-> FALSE, r |-> {}]

\* Lock(), up to the wait for the readers.
Announce(m, g) == [m EXCEPT !.w = g, !.held = (m.r = {})]

CanAnnounce(m) == m.w = ""

\* The readers a writer waits for have left.
Drained(m, g) == m.w = g /\ ~m.held /\ m.r = {}

Unlock(m) == [m EXCEPT !.w = "", !.held = FALSE]

RLock(m, g) == [m EXCEPT !.r = @ \cup {g}]

RUnlock(m, g) == [m EXCEPT !.r = @ \ {g}]

\* The Runs of the model: two of the report and one that AddRun appends.
LockRuns == {PA, PB, PC}

\* The paths the callers pass to EndRun and GetRun.
LockPaths == {PA, PC} \cup RelPaths

LockFrame ==
    [op |-> "none", pc |-> "done", run |-> NilRun, path |-> <<>>,
     n |-> 0, i |-> 0, locked |-> <<>>]

\* The frames after goroutine g moved to frame f.
LockThreads(g, f) == [thr EXCEPT ![g] = f]

\* A report of two Runs, the first started last and ended, and a Run that
\* NewRun returned and no AddRun has appended.
LockStart ==
    /\ Runs = <<[MkRun(PA, 2) EXCEPT !.Ended = 2, !.Result = ResultSucceeded], MkRun(PB, 1)>>
    /\ pending = {MkRun(PC, 1)}
    /\ now = 2
    /\ last = NoCall
    /\ mu = [rep |-> Unlocked, run |-> [name \in LockRuns |-> Unlocked]]
    /\ thr = [g \in Goroutines |-> LockFrame]
    /\ summary = <<>>
    /\ out = <<>>
    /\ fs = <<>>
    /\ wtf = <<>>
    /\ SchedIdle
    /\ ResolveIdle

\* The calls: AddRun, EndRun and WriteToFile start with r.mu.Lock(), GetRun
\* and WriteCSV with r.mu.RLock(), Summarize with its range statement.
LockCall(g) ==
    /\ thr[g].pc = "done"
    /\ \/ \E run \in pending :
            thr' = LockThreads(g, [LockFrame EXCEPT !.op = "AddRun", !.pc = "Lock", !.run = run])
       \/ \E path \in LockPaths :
            thr' = LockThreads(g, [LockFrame EXCEPT !.op = "EndRun", !.pc = "Lock", !.path = path])
       \/ \E path \in LockPaths :
            thr' = LockThreads(g, [LockFrame EXCEPT !.op = "GetRun", !.pc = "RLock", !.path = path])
       \/ thr' = LockThreads(g, [LockFrame EXCEPT !.op = "WriteCSV", !.pc = "RLock"])
       \/ thr' = LockThreads(g, [LockFrame EXCEPT !.op = "WriteToFile", !.pc = "Lock"])
       \/ thr' = LockThreads(g, [LockFrame EXCEPT !.op = "Summarize", !.pc = "Update", !.n = Len(Runs), !.i = 1])
    /\ UNCHANGED <<Runs, pending, mu, raceFrame>>

\* r.mu.Lock()
LockReport(g) ==
    /\ thr[g].pc = "Lock"
    /\ CanAnnounce(mu.rep)
    /\ mu' = [mu EXCEPT !.rep = Announce(@, g)]
    /\ thr' = LockThreads(g, [thr[g] EXCEPT !.pc = IF mu.rep.r = {} THEN "Locked" ELSE "Wait"])
    /\ UNCHANGED <<Runs, pending, raceFrame>>

\* r.mu.Lock() returns
LockReportReturns(g) ==
    /\ thr[g].pc = "Wait"
    /\ Drained(mu.rep, g)
    /\ mu' = [mu EXCEPT !.rep.held = TRUE]
    /\ thr' = LockThreads(g, [thr[g] EXCEPT !.pc = "Locked"])
    /\ UNCHANGED <<Runs, pending, raceFrame>>

\* r.mu.RLock(); WriteCSV goes on to its range statement
RLockReport(g) ==
    /\ thr[g].pc = "RLock"
    /\ CanRLock(mu.rep)
    /\ mu' = [mu EXCEPT !.rep = RLock(@, g)]
    /\ thr' = LockThreads(g, IF thr[g].op = "GetRun" THEN [thr[g] EXCEPT !.pc = "RLocked"] ELSE [thr[g] EXCEPT !.pc = "Rows", !.n = Len(Runs), !.i = 1])
    /\ UNCHANGED <<Runs, pending, raceFrame>>

\* AddRun: the scan, the append and the deferred r.mu.Unlock()
LockAddRunBody(g) ==
    LET r == AddRun(Runs, thr[g].run) IN
    /\ thr[g].op = "AddRun" /\ thr[g].pc = "Locked"
    /\ Runs' = r.runs
    /\ pending' = IF r.err = ErrNone THEN pending \ {thr[g].run} ELSE pending
    /\ mu' = [mu EXCEPT !.rep = Unlock(@)]
    /\ thr' = LockThreads(g, LockFrame)
    /\ UNCHANGED raceFrame

\* GetRun: the lookup and the deferred r.mu.RUnlock()
LockGetRunBody(g) ==
    /\ thr[g].op = "GetRun" /\ thr[g].pc = "RLocked"
    /\ mu' = [mu EXCEPT !.rep = RUnlock(@, g)]
    /\ thr' = LockThreads(g, LockFrame)
    /\ UNCHANGED <<Runs, pending, raceFrame>>

\* The locks after EndRun returned an error: the deferred r.mu.Unlock().
endRunReturnsError(m, g) == [m EXCEPT !.rep = Unlock(@)]

\* EndRun: the test of the path and the lookup; the return with the error,
\* or on to run.mu.Lock()
LockEndRunFind(g) ==
    LET found == IsAbs(thr[g].path) /\ IndexOfName(Runs, thr[g].path) # 0 IN
    /\ thr[g].op = "EndRun" /\ thr[g].pc = "Locked"
    /\ mu' = IF found THEN mu ELSE endRunReturnsError(mu, g)
    /\ thr' = LockThreads(g, IF found THEN [thr[g] EXCEPT !.pc = "LockRun"] ELSE LockFrame)
    /\ UNCHANGED <<Runs, pending, raceFrame>>

\* EndRun: run.mu.Lock()
LockRun(g) ==
    /\ thr[g].pc = "LockRun"
    /\ CanAnnounce(mu.run[thr[g].path])
    /\ mu' = [mu EXCEPT !.run[thr[g].path] = Announce(@, g)]
    /\ thr' = LockThreads(g, [thr[g] EXCEPT !.pc = IF mu.run[thr[g].path].r = {} THEN "RunLocked" ELSE "WaitRun"])
    /\ UNCHANGED <<Runs, pending, raceFrame>>

\* EndRun: run.mu.Lock() returns
LockRunReturns(g) ==
    /\ thr[g].pc = "WaitRun"
    /\ Drained(mu.run[thr[g].path], g)
    /\ mu' = [mu EXCEPT !.run[thr[g].path].held = TRUE]
    /\ thr' = LockThreads(g, [thr[g] EXCEPT !.pc = "RunLocked"])
    /\ UNCHANGED <<Runs, pending, raceFrame>>

\* EndRun: the assignments, the deferred run.mu.Unlock() and r.mu.Unlock()
LockEndRunBody(g) ==
    /\ thr[g].op = "EndRun" /\ thr[g].pc = "RunLocked"
    /\ Runs' = EndRun(Runs, thr[g].path, <<>>, now).runs
    /\ mu' = [mu EXCEPT !.run[thr[g].path] = Unlock(@), !.rep = Unlock(@)]
    /\ thr' = LockThreads(g, LockFrame)
    /\ UNCHANGED <<pending, raceFrame>>

\* WriteToFile: r.SortRuns(), r.mu.Unlock(), and on to WriteCSV
LockWriteToFileSort(g) ==
    /\ thr[g].op = "WriteToFile" /\ thr[g].pc = "Locked"
    /\ Runs' \in SortRunsOutcomes(Runs)
    /\ mu' = [mu EXCEPT !.rep = Unlock(@)]
    /\ thr' = LockThreads(g, [thr[g] EXCEPT !.pc = "RLock"])
    /\ UNCHANGED <<pending, raceFrame>>

\* WriteCSV: run.mu.RLock() of one iteration, the deferral of its RUnlock
\* and the record, which the writer takes or not
LockWriteCSVRow(g) ==
    \E taken \in BOOLEAN :
        /\ thr[g].pc = "Rows"
        /\ thr[g].i <= thr[g].n
        /\ CanRLock(mu.run[Runs[thr[g].i].Name])
        /\ mu' = [mu EXCEPT !.run[Runs[thr[g].i].Name] = RLock(@, g)]
        /\ thr' = LockThreads(g, [thr[g] EXCEPT !.locked = Append(@, Runs[thr[g].i].Name), !.i = @ + 1, !.pc = IF taken THEN "Rows" ELSE "Return"])
        /\ UNCHANGED <<Runs, pending, raceFrame>>

writeCSVForgettingRuns(m, g, locked) == [m EXCEPT !.rep = RUnlock(@, g)]

\* The locks after WriteCSV returned: the deferred run.mu.RUnlock() of every
\* iteration, the last first, and the deferred r.mu.RUnlock().
RECURSIVE writeCSVDeferred(_, _, _)
writeCSVDeferred(m, g, locked) ==
    IF locked = <<>> THEN [m EXCEPT !.rep = RUnlock(@, g)]
    ELSE writeCSVDeferred(
            [m EXCEPT !.run[locked[Len(locked)]] = RUnlock(@, g)], g,
            SubSeq(locked, 1, Len(locked) - 1))

\* WriteCSV returns, after the last Run or with the writer's error
LockWriteCSVReturn(g) ==
    /\ \/ thr[g].pc = "Return"
       \/ thr[g].pc = "Rows" /\ thr[g].i > thr[g].n
    /\ mu' = writeCSVDeferred(mu, g, thr[g].locked)
    /\ thr' = LockThreads(g, LockFrame)
    /\ UNCHANGED <<Runs, pending, raceFrame>>

\* Summarize: summary.Update(run) up to run.mu.RLock(), or the return
LockSummarizeUpdate(g) ==
    /\ thr[g].op = "Summarize" /\ thr[g].pc = "Update"
    /\ IF thr[g].i > thr[g].n
       THEN /\ thr' = LockThreads(g, LockFrame)
            /\ mu' = mu
       ELSE \E k \in 1..Len(Runs) :
                /\ CanRLock(mu.run[Runs[k].Name])
                /\ mu' = [mu EXCEPT !.run[Runs[k].Name] = RLock(@, g)]
                /\ thr' = LockThreads(g, [thr[g] EXCEPT !.pc = "Counting", !.path = Runs[k].Name])
    /\ UNCHANGED <<Runs, pending, raceFrame>>

\* Summarize: the counting and the deferred run.mu.RUnlock() of Update
LockSummarizeCounted(g) ==
    /\ thr[g].op = "Summarize" /\ thr[g].pc = "Counting"
    /\ mu' = [mu EXCEPT !.run[thr[g].path] = RUnlock(@, g)]
    /\ thr' = LockThreads(g, [thr[g] EXCEPT !.pc = "Update", !.i = @ + 1])
    /\ UNCHANGED <<Runs, pending, raceFrame>>

\* A step of the call goroutine g is in.
LockStep(g) ==
    \/ LockReport(g)
    \/ LockReportReturns(g)
    \/ RLockReport(g)
    \/ LockAddRunBody(g)
    \/ LockGetRunBody(g)
    \/ LockEndRunFind(g)
    \/ LockRun(g)
    \/ LockRunReturns(g)
    \/ LockEndRunBody(g)
    \/ LockWriteToFileSort(g)
    \/ LockWriteCSVRow(g)
    \/ LockWriteCSVReturn(g)
    \/ LockSummarizeUpdate(g)
    \/ LockSummarizeCounted(g)

LockNext == \E g \in Goroutines : LockCall(g) \/ LockStep(g)

\* The goroutines calling the Report's methods, every lock operation a step.
LockSpec == LockStart /\ [][LockNext]_vars

(***************************************************************************)
(* internal/report: WriteCSV and WriteToFile.                               *)
(*                                                                          *)
(* A file's content is the sequence of CSV records written to it. A path is *)
(* a directory and a name.                                                  *)
(***************************************************************************)
\* The most temporary files the model lets exist at once.
MaxTemps == 1

\* The records csv.NewWriter's bufio.Writer holds before it writes them to
\* the file: its 4096 bytes, counted in records.
BufRecords == 2

ErrCreateTemp == "create temp failed"
ErrWrite == "failed to write report"
ErrClose == "failed to close report file"
ErrRename == "rename failed"

\* run.Started.Format(time.RFC3339): the text of the time, no longer a time.
FormatRFC3339(t) == <<"rfc3339", t>>

CSVHeader == <<"Name", "Started", "Ended", "Result", "Reason", "Cause">>

CSVRowNilText(run) ==
    <<run.Name, FormatRFC3339(run.Started), FormatRFC3339(run.Ended),
      run.Result, run.Reason, run.Cause>>

\* The record WriteCSV builds for one Run.
CSVRow(run) ==
    <<run.Name, FormatRFC3339(run.Started), FormatRFC3339(run.Ended),
      run.Result,
      IF run.Reason # Nil THEN run.Reason ELSE "",
      IF run.Cause # Nil THEN run.Cause ELSE "">>

\* The records WriteCSV hands to the csv.Writer, in order.
CSVRecords(runs) == <<CSVHeader>> \o [i \in 1..Len(runs) |-> CSVRow(runs[i])]

\* The bufio.Writer writes the records to the file in chunks of BufRecords
\* records, the last one when the deferred Flush runs.
NumChunks(n) == (n + BufRecords - 1) \div BufRecords

\* func (r *Report) WriteCSV(w io.Writer) error on the records of the Runs,
\* when the chunk failAt of w's writes fails after part records of it (none
\* fails when failAt = 0): what w received and the error returned. A failed
\* chunk makes the next csvWriter.Write return the error; the error of the
\* deferred csvWriter.Flush() is never looked at.
WriteCSV(records, failAt, part) ==
    IF failAt = 0 THEN [data |-> records, err |-> ErrNone]
    ELSE [data |-> SubSeq(records, 1, (failAt - 1) * BufRecords + part),
          err |-> IF failAt < NumChunks(Len(records)) THEN ErrWrite ELSE ErrNone]

\* os.TempDir() and the directory the caller wants the report in.
TempDir == "/tmp"
ReportDir == "/w"

File(dir, name) == [dir |-> dir, name |-> name]

\* A file name is a prefix, the number CreateTemp puts for "*" and a suffix.
ReportName == <<"report", 0, ".csv">>

NoPath == File("", <<"", 0, "">>)

\* The destinations WriteToFile is called with.
Destinations == {File(ReportDir, ReportName), File(TempDir, ReportName)}

\* os.CreateTemp(dir, "terragrunt-report-*.csv"): the files it can create.
TempFiles(dir) == {File(dir, <<"terragrunt-report-", k, ".csv">>) : k \in 1..MaxTemps}

\* os.CreateTemp("", "terragrunt-report-*.csv"): an empty dir is os.TempDir().
CreateTemp(path) == TempFiles(TempDir)

Files == Destinations \cup TempFiles(TempDir) \cup TempFiles(ReportDir)

NoFile == [exists |-> FALSE, data |-> <<>>]

Content(data) == [exists |-> TRUE, data |-> data]

\* What a destination holds before the first WriteToFile.
OldReport == <<<<"an earlier report">>>>

\* Reports the Report API builds: up to three Runs, one ended with a result,
\* a reason and a cause, one not ended, one ended with no option.
FileRun1 == AddRun(<<>>, MkRun(PA, 2)).runs
FileRun1Ended == EndRun(FileRun1, PA, <<WithResult(ResultFailed), WithReason(ReasonRunError), WithCauseRetryBlock("blk")>>, 2).runs
FileRun2 == AddRun(FileRun1Ended, MkRun(PB, 1)).runs
FileRun3 == EndRun(AddRun(FileRun2, MkRun(PC, 1)).runs, PC, <<>>, 2).runs
FileReports == {<<>>, FileRun1Ended, FileRun2, FileRun3}

NoExport == [pc |-> "none", path |-> NoPath, tmp |-> NoPath, err |-> ErrNone, before |-> NoFile]

\* A report, a destination directory that holds an earlier report or not, no
\* export under way.
FileStart ==
    /\ Runs \in FileReports
    /\ pending = {}
    /\ now = 2
    /\ last = NoCall
    /\ fs \in {[f \in Files |-> IF f \in old THEN Content(OldReport) ELSE NoFile] : old \in SUBSET Destinations}
    /\ wtf = NoExport
    /\ out = <<>>
    /\ summary = <<>>
    /\ mu = <<>>
    /\ thr = <<>>
    /\ SchedIdle
    /\ ResolveIdle

fileFrame == <<pending, now, summary, lockVars, schedVars, resolveVars>>

\* err := r.WriteCSV(w), w a writer that takes everything or fails at a chunk
WriteCSVOp ==
    \E failAt \in 0..NumChunks(Len(Runs) + 1), part \in 0..(BufRecords - 1) :
        LET w == WriteCSV(CSVRecords(Runs), failAt, part) IN
        /\ wtf.pc \in {"none", "returned"}
        /\ out' = w.data
        /\ last' = Call("WriteCSV", <<failAt>>, NilRun, w.err)
        /\ UNCHANGED <<Runs, fileVars, fileFrame>>

\* WriteToFile: tmpFile, err := os.CreateTemp(...)
WriteToFileCreateTemp ==
    \E path \in Destinations :
        /\ wtf.pc \in {"none", "returned"}
        /\ \/ /\ wtf' = [pc |-> "returned", path |-> path, tmp |-> NoPath, err |-> ErrCreateTemp, before |-> fs[path]]
              /\ fs' = fs
           \/ \E tmp \in CreateTemp(path) :
                /\ ~fs[tmp].exists
                /\ wtf' = [pc |-> "sort", path |-> path, tmp |-> tmp, err |-> ErrNone, before |-> fs[path]]
                /\ fs' = [fs EXCEPT ![tmp] = Content(<<>>)]
        /\ last' = Call("WriteToFile", <<>>, NilRun, ErrNone)
        /\ UNCHANGED <<Runs, out, fileFrame>>

\* WriteToFile: r.mu.Lock(); r.SortRuns(); r.mu.Unlock()
WriteToFileSort ==
    \E sorted \in SortRunsOutcomes(Runs) :
        /\ wtf.pc = "sort"
        /\ Runs' = sorted
        /\ wtf' = [wtf EXCEPT !.pc = "write"]
        /\ UNCHANGED <<last, fs, out, fileFrame>>

\* WriteToFile: err = r.WriteCSV(tmpFile), and the return when it failed
WriteToFileWriteCSV ==
    \E failAt \in 0..NumChunks(Len(Runs) + 1), part \in 0..(BufRecords - 1) :
        LET w == WriteCSV(CSVRecords(Runs), failAt, part) IN
        /\ wtf.pc = "write"
        /\ fs' = [fs EXCEPT ![wtf.tmp] = Content(w.data)]
        /\ wtf' = [wtf EXCEPT !.pc = IF w.err = ErrNone THEN "close" ELSE "returned", !.err = w.err]
        /\ UNCHANGED <<Runs, last, out, fileFrame>>

\* WriteToFile: tmpFile.Close(), and the return when it failed
WriteToFileClose ==
    \E err \in {ErrNone, ErrClose} :
        /\ wtf.pc = "close"
        /\ wtf' = [wtf EXCEPT !.pc = IF err = ErrNone THEN "rename" ELSE "returned", !.err = err]
        /\ UNCHANGED <<Runs, last, fs, out, fileFrame>>

\* WriteToFile: return os.Rename(tmpFile.Name(), path)
WriteToFileRename ==
    \E err \in {ErrNone, ErrRename} :
        /\ wtf.pc = "rename"
        /\ fs' = IF err = ErrNone
                 THEN [fs EXCEPT ![wtf.path] = fs[wtf.tmp], ![wtf.tmp] = NoFile]
                 ELSE fs
        /\ wtf' = [wtf EXCEPT !.pc = "returned", !.err = err]
        /\ UNCHANGED <<Runs, last, out, fileFrame>>

FileNext ==
    \/ WriteCSVOp
    \/ WriteToFileCreateTemp
    \/ WriteToFileSort
    \/ WriteToFileWriteCSV
    \/ WriteToFileClose
    \/ WriteToFileRename

\* WriteCSV and WriteToFile on a report no other goroutine touches.
FileSpec == FileStart /\ [][FileNext]_vars

(***************************************************************************)
(* internal/report: rendering the Summary.                                  *)
(*                                                                          *)
(* A time.Duration is an int64 of nanoseconds; it is kept here as whole     *)
(* minutes m, whole seconds s below a minute and nanoseconds ns below a     *)
(* second. The Summary that is rendered carries what s.TotalDuration()      *)
(* returns in the field duration.                                           *)
(***************************************************************************)
\* The most Runs of one result in a rendered Summary.
MaxCount == 2

Duration(m, s, ns) == [m |-> m, s |-> s, ns |-> ns]

\* Durations around each change of unit, and around the first minute count
\* whose float64 has less than a nanosecond of a minute to spare.
DurationValues ==
    {Duration(m, s, ns) :
        m \in {0, 1, 2, 262143, 262144},
        s \in {0, 1, 59},
        ns \in {0, 1, 999, 1000, 1001, 999999, 1000000, 1000001, 999999999}}

\* The padders of a Summary: the default, a one-character override and a
\* longer one.
Padders == {DefaultPadder, ".", "--"}

prefix == "   "
\* The heading; its two leading marks are not ASCII in the source.
runSummaryHeader == ">> Run Summary"
durationLabel == "Duration"
unitsLabel == "Units"
successLabel == "Succeeded"
failureLabel == "Failed"
earlyExitLabel == "Early Exits"
excludeLabel == "Excluded"
separator == ": "

\* strconv.Itoa and the %d verb.
Itoa(n) == ToString(n)

\* floor(log2(n)) for n >= 1: the exponent of float64(n).
RECURSIVE Exponent(_)
Exponent(n) == IF n < 2 THEN 0 ELSE 1 + Exponent(n \div 2)

RECURSIVE Pow2(_)
Pow2(k) == IF k = 0 THEN 1 ELSE 2 * Pow2(k - 1)

\* float64(whole) + float64(rem)/unit, with unit = odd * 2^k nanoseconds, is
\* rounded to the 53 bits of a float64: the sum becomes whole + 1 when rem is
\* within this many nanoseconds of unit (half a unit in the last place of
\* whole).
RoundingGap(whole, odd, k) ==
    IF whole < 1 \/ 53 - k - Exponent(whole) >= 25 \/ 53 - k - Exponent(whole) < 0 THEN 0
    ELSE odd \div Pow2(53 - k - Exponent(whole))

\* The nanoseconds from d to the next whole minute, or a second if more.
GapToMinute(d) == IF d.s = 59 THEN 1000000000 - d.ns ELSE 1000000000

\* int(duration.Seconds()): Seconds() is float64(sec) + float64(nsec)/1e9.
IntSeconds(d) ==
    IF 1000000000 - d.ns <= RoundingGap(d.m * 60 + d.s, 1953125, 9)
    THEN d.m * 60 + d.s + 1 ELSE d.m * 60 + d.s

\* int(duration.Minutes()): Minutes() is float64(min) + float64(nsec)/(60*1e9).
IntMinutes(d) ==
    IF GapToMinute(d) <= RoundingGap(d.m, 29296875, 11)
    THEN d.m + 1 ELSE d.m

\* duration.Microseconds() and duration.Milliseconds(): integer divisions.
Microseconds(d) == (d.m * 60 + d.s) * 1000000 + d.ns \div 1000
Milliseconds(d) == (d.m * 60 + d.s) * 1000 + d.ns \div 1000000

\* func (s *Summary) TotalDurationString(colorizer *Colorizer) string, for an
\* uncoloured summary; "us" stands for the source's micro sign and s.
TotalDurationString(d) ==
    IF d.m = 0 /\ d.s = 0 /\ d.ns < 1000000 THEN Itoa(Microseconds(d)) \o "us"
    ELSE IF d.m = 0 /\ d.s = 0 THEN Itoa(Milliseconds(d)) \o "ms"
    ELSE IF d.m = 0 THEN Itoa(IntSeconds(d)) \o "s"
    ELSE Itoa(IntMinutes(d)) \o "m"

\* slices.Max
RECURSIVE MaxOf(_)
MaxOf(lengths) ==
    IF Len(lengths) = 1 THEN lengths[1]
    ELSE IF lengths[1] >= MaxOf(Tail(lengths)) THEN lengths[1] ELSE MaxOf(Tail(lengths))

\* The labels whose line is written only for a count above zero.
OptionalLabels(s) ==
    (IF s.UnitsSucceeded > 0 THEN <<successLabel>> ELSE <<>>)
    \o (IF s.UnitsFailed > 0 THEN <<failureLabel>> ELSE <<>>)
    \o (IF s.EarlyExits > 0 THEN <<earlyExitLabel>> ELSE <<>>)
    \o (IF s.Excluded > 0 THEN <<excludeLabel>> ELSE <<>>)

AllLabels(s) ==
    <<durationLabel, unitsLabel, successLabel, failureLabel, earlyExitLabel, excludeLabel>>

\* The labels longestLineLength measures.
MeasuredLabels(s) == <<durationLabel, unitsLabel>> \o OptionalLabels(s)

longestLineLengthOfAll(s) ==
    MaxOf([i \in 1..Len(AllLabels(s)) |-> Len(AllLabels(s)[i]) + Len(prefix) + Len(separator)])

\* func (s *Summary) longestLineLength() int
longestLineLength(s) ==
    MaxOf([i \in 1..Len(MeasuredLabels(s)) |-> Len(MeasuredLabels(s)[i]) + Len(prefix) + Len(separator)])

\* strings.Repeat panics on a negative count.
PanicNegativeRepeat == "panic: strings: negative Repeat count"

RECURSIVE Repeat(_, _)
Repeat(str, count) ==
    IF count < 0 THEN PanicNegativeRepeat
    ELSE IF count = 0 THEN ""
    ELSE str \o Repeat(str, count - 1)

\* func (s *Summary) padding(label string) string
padding(s, label) ==
    Repeat(s.padder, longestLineLength(s) - (Len(prefix) + Len(label) + Len(separator)))

\* A line written: the arguments of Fprintf and the text they make.
writeSummaryHeader(value) == [args |-> <<value>>, text |-> value \o "\n"]

\* func (s *Summary) writeSummaryEntry(w, label, value): "%s%s%s%s %s\n"
writeSummaryEntry(s, label, value) ==
    [args |-> <<prefix, label, separator, padding(s, label), value>>,
     text |-> prefix \o label \o separator \o padding(s, label) \o " " \o value \o "\n"]

\* func (s *Summary) Write(w io.Writer) error, on a writer that takes every
\* write: the lines written.
SummaryWrite(s) ==
    <<writeSummaryHeader(runSummaryHeader),
      writeSummaryEntry(s, durationLabel, TotalDurationString(s.duration)),
      writeSummaryEntry(s, unitsLabel, Itoa(s.TotalUnits))>>
    \o (IF s.UnitsSucceeded > 0 THEN <<writeSummaryEntry(s, successLabel, Itoa(s.UnitsSucceeded))>> ELSE <<>>)
    \o (IF s.UnitsFailed > 0 THEN <<writeSummaryEntry(s, failureLabel, Itoa(s.UnitsFailed))>> ELSE <<>>)
    \o (IF s.EarlyExits > 0 THEN <<writeSummaryEntry(s, earlyExitLabel, Itoa(s.EarlyExits))>> ELSE <<>>)
    \o (IF s.Excluded > 0 THEN <<writeSummaryEntry(s, excludeLabel, Itoa(s.Excluded))>> ELSE <<>>)

\* A Summary that Summarize returned: counts of ended Runs, Runs not ended,
\* a padder and a total duration.
RenderSummary(ok, failed, exits, excluded, open, padder, d) ==
    [TotalUnits |-> ok + failed + exits + excluded + open,
     UnitsSucceeded |-> ok, UnitsFailed |-> failed,
     EarlyExits |-> exits, Excluded |-> excluded,
     padder |-> padder, duration |-> d]

\* Every combination of counts with a duration of each unit, and every
\* duration with one Run or two.
RenderSummaries ==
    {RenderSummary(ok, failed, exits, excluded, open, padder, d) :
        ok \in 0..MaxCount, failed \in 0..MaxCount, exits \in 0..MaxCount,
        excluded \in 0..MaxCount, open \in 0..1, padder \in Padders,
        d \in {Duration(0, 0, 999), Duration(0, 1, 0), Duration(2, 59, 1000000)}}
    \cup {RenderSummary(c, 0, 1, 0, 0, padder, d) :
        c \in 0..1, padder \in Padders, d \in DurationValues}

RenderStart ==
    /\ summary \in RenderSummaries
    /\ out = <<>>
    /\ last = NoCall
    /\ Runs = <<>>
    /\ pending = {}
    /\ now = 1
    /\ mu = <<>>
    /\ thr = <<>>
    /\ fs = <<>>
    /\ wtf = <<>>
    /\ SchedIdle
    /\ ResolveIdle

\* err := summary.Write(w)
SummaryWriteOp ==
    /\ out' = SummaryWrite(summary)
    /\ last' = Call("Write", <<>>, NilRun, ErrNone)
    /\ UNCHANGED <<Runs, pending, now, summary, lockVars, fileVars, schedVars, resolveVars>>

\* text := summary.TotalDurationString(colorizer)
TotalDurationStringOp ==
    /\ out' = <<TotalDurationString(summary.duration)>>
    /\ last' = Call("TotalDurationString", <<>>, NilRun, ErrNone)
    /\ UNCHANGED <<Runs, pending, now, summary, lockVars, fileVars, schedVars, resolveVars>>

RenderNext ==
    \/ SummaryWriteOp
    \/ TotalDurationStringOp

\* Rendering a Summary.
RenderSpec == RenderStart /\ [][RenderNext]_vars

(***************************************************************************)
(* DefaultStack.Run and the scheduler.                                      *)
(*                                                                          *)
(* The stack holds the options and the modules; Run picks the scheduler     *)
(* entry point. The entry points themselves (TerraformModules.RunModules,   *)
(* RunModulesReverseOrder, RunModulesIgnoreOrder) follow section 4.3 of the *)
(* specification.                                                           *)
(***************************************************************************)
\* Largest opts.Parallelism of the model.
MaxParallelism == 2

CommandNameApply == "apply"
CommandNameDestroy == "destroy"

\* The modules of a stack: units inside the working directory.
Units == {PA, PB, PC}

\* A fixed order of the units; every module set of the model is acyclic
\* because a module only depends on modules before it in this order.
UnitRank(u) == CASE u = PA -> 1 [] u = PB -> 2 [] u = PC -> 3 [] OTHER -> 4

FlagNone == "none"
FlagExcluded == "excluded"
FlagAssumeAlreadyApplied == "assume already applied"

\* TerraformModules: per module its Dependencies and its flags. At most one
\* module of a stack of the model is flagged.
ModuleSets ==
    {m \in [Units -> [Dependencies : SUBSET Units,
                      Flag : {FlagNone, FlagExcluded, FlagAssumeAlreadyApplied}]] :
        /\ \A u \in Units : \A d \in m[u].Dependencies : UnitRank(d) < UnitRank(u)
        /\ Cardinality({u \in Units : m[u].Flag # FlagNone}) <= 1}

\* options.TerragruntOptions, the fields Run reads.
StackOptions ==
    [IgnoreDependencyOrder : BOOLEAN,
     TerraformCommand : {CommandNameApply, CommandNameDestroy},
     Parallelism : 1..MaxParallelism,
     OutputFolder : {"", "/w/out"}]

EntryNone == "none"
EntryRunModules == "RunModules"
EntryRunModulesReverseOrder == "RunModulesReverseOrder"
EntryRunModulesIgnoreOrder == "RunModulesIgnoreOrder"

\* What os.MkdirAll returns when it fails.
ErrMkdirAll == "mkdir: permission denied"

\* Run handed the modules to entry with parallelism, or returned err before.
Dispatch(entry, parallelism) ==
    [entry |-> entry, parallelism |-> parallelism, err |-> ErrNone]

\* Run returned err without calling an entry point.
ReturnBeforeDispatch(err) == [entry |-> EntryNone, parallelism |-> 0, err |-> err]

\* The loop over the modules that creates the directories of the plan files.
PrepareOutputFolder(opts, mkdirAll) ==
    IF opts.OutputFolder # "" THEN mkdirAll ELSE ErrNone

StackRunIgnoreOrder(opts, mkdirAll) ==
    IF PrepareOutputFolder(opts, mkdirAll) # ErrNone
    THEN ReturnBeforeDispatch(mkdirAll)
    ELSE Dispatch(EntryRunModulesIgnoreOrder, opts.Parallelism)

StackRunSwapped(opts, mkdirAll) ==
    IF PrepareOutputFolder(opts, mkdirAll) # ErrNone
    THEN ReturnBeforeDispatch(mkdirAll)
    ELSE IF opts.IgnoreDependencyOrder
    THEN Dispatch(EntryRunModulesIgnoreOrder, opts.Parallelism)
    ELSE IF opts.TerraformCommand = CommandNameDestroy
    THEN Dispatch(EntryRunModules, opts.Parallelism)
    ELSE Dispatch(EntryRunModulesReverseOrder, opts.Parallelism)

StackRunUnbounded(opts, mkdirAll) ==
    IF PrepareOutputFolder(opts, mkdirAll) # ErrNone
    THEN ReturnBeforeDispatch(mkdirAll)
    ELSE IF opts.IgnoreDependencyOrder
    THEN Dispatch(EntryRunModulesIgnoreOrder, opts.Parallelism + 1)
    ELSE IF opts.TerraformCommand = CommandNameDestroy
    THEN Dispatch(EntryRunModulesReverseOrder, opts.Parallelism + 1)
    ELSE Dispatch(EntryRunModules, opts.Parallelism + 1)

StackRunDestroyFirst(opts, mkdirAll) ==
    IF PrepareOutputFolder(opts, mkdirAll) # ErrNone
    THEN ReturnBeforeDispatch(mkdirAll)
    ELSE IF opts.TerraformCommand = CommandNameDestroy
    THEN Dispatch(EntryRunModulesReverseOrder, opts.Parallelism)
    ELSE IF opts.IgnoreDependencyOrder
    THEN Dispatch(EntryRunModulesIgnoreOrder, opts.Parallelism)
    ELSE Dispatch(EntryRunModules, opts.Parallelism)

\* func (stack *DefaultStack) Run: the preparation of the output folder, which
\* returns the error of os.MkdirAll, and the switch that ends it.
StackRun(opts, mkdirAll) ==
    IF PrepareOutputFolder(opts, mkdirAll) # ErrNone
    THEN ReturnBeforeDispatch(mkdirAll)
    ELSE IF opts.IgnoreDependencyOrder
    THEN Dispatch(EntryRunModulesIgnoreOrder, opts.Parallelism)
    ELSE IF opts.TerraformCommand = CommandNameDestroy
    THEN Dispatch(EntryRunModulesReverseOrder, opts.Parallelism)
    ELSE Dispatch(EntryRunModules, opts.Parallelism)

NormalOrder == "NormalOrder"
ReverseOrder == "ReverseOrder"

\* func (stack *DefaultStack) toRunningModules: the order of the run graph
\* for a command.
toRunningModules(terraformCommand) ==
    IF terraformCommand = CommandNameDestroy THEN ReverseOrder ELSE NormalOrder

\* The nodes a node of the run graph waits for: its dependencies, or its
\* dependents when the graph is reversed.
GraphDeps(order, u) ==
    IF order = ReverseOrder
    THEN {v \in Units : u \in stack.modules[v].Dependencies}
    ELSE stack.modules[u].Dependencies

\* The length of the longest chain of GraphDeps that ends in u, up to n.
RECURSIVE GraphDepth(_, _, _)
GraphDepth(order, u, n) ==
    IF n = 0 \/ GraphDeps(order, u) = {} THEN 0
    ELSE LET below == {GraphDepth(order, d, n - 1) : d \in GraphDeps(order, u)}
         IN  1 + CHOOSE m \in below : \A k \in below : k <= m

\* toTerraformModuleGroups: group i holds the modules without the exclude
\* flag whose longest chain has i - 1 steps.
toTerraformModuleGroups(order) ==
    LET shown == {u \in Units : stack.modules[u].Flag # FlagExcluded}
        depth(u) == GraphDepth(order, u, Cardinality(Units))
        deepest == IF shown = {} THEN 0
                   ELSE 1 + CHOOSE m \in {depth(u) : u \in shown} :
                                \A u \in shown : depth(u) <= m
    IN  [i \in 1..deepest |-> {u \in shown : depth(u) = i - 1}]

\* func (stack *DefaultStack) GetModuleRunGraph
GetModuleRunGraph(terraformCommand) ==
    toTerraformModuleGroups(toRunningModules(terraformCommand))

Waiting == "Waiting"
Running == "Running"
Finished == "Finished"

OutcomeNone == "none"
Success == "Success"
Failure == "Failure"
EarlyExit == "EarlyExit"

\* The reason section 4.3 gives a Run that is early-exited for an ancestor.
ReasonAncestorExit == "ancestor exit"

\* A RunNode before it ran.
WaitingNode ==
    [status |-> Waiting, outcome |-> OutcomeNone, cause |-> Nil, invoked |-> FALSE]

\* The nodes a node waits for under an entry point: its dependencies, its
\* dependents when the graph is inverted, none when the order is ignored.
ActiveDeps(entry, u) ==
    CASE entry = EntryRunModules -> stack.modules[u].Dependencies
      [] entry = EntryRunModulesReverseOrder ->
            {v \in Units : u \in stack.modules[v].Dependencies}
      [] OTHER -> {}

RunningCount == Cardinality({u \in Units : node[u].status = Running})

\* A dependency that finished as Failure or EarlyExit.
FailedDeps(u) ==
    {d \in ActiveDeps(sch.entry, u) :
        node[d].status = Finished /\ node[d].outcome \in {Failure, EarlyExit}}

\* The failing node an early exit is traced back to.
CauseFrom(d) == IF node[d].outcome = Failure THEN d ELSE node[d].cause

\* NewRun, AddRun and EndRun in one go, for a unit that does not run.
RecordRun(runs, path, opts, t) ==
    EndRun(AddRun(runs, NewRun(path, t).run).runs, path, opts, t).runs

SchedInit ==
    /\ stack \in [opts : StackOptions, modules : ModuleSets]
    /\ sch = Dispatch(EntryNone, 0)
    /\ node = [u \in Units |-> WaitingNode]

\* stack.Run(ctx, l, opts)
StackRunOp ==
    \E mkdirAll \in {ErrNone, ErrMkdirAll} :
        /\ sch.entry = EntryNone
        /\ sch.err = ErrNone
        /\ sch' = StackRun(stack.opts, mkdirAll)
        /\ UNCHANGED <<reportVars, stack, node, resolveVars, reportIOVars>>

AssumedDoneRecordingRun ==
    \E u \in Units, t \in now..MaxTime :
        /\ sch.entry # EntryNone
        /\ node[u].status = Waiting
        /\ stack.modules[u].Flag = FlagAssumeAlreadyApplied
        /\ now' = t
        /\ Runs' = RecordRun(Runs, u, <<>>, t)
        /\ node' = [node EXCEPT ![u].status = Finished, ![u].outcome = Success]
        /\ UNCHANGED <<pending, last, stack, sch, resolveVars, reportIOVars>>

\* AssumeAlreadyApplied: terminal Success at once, no backend, no Run.
AssumedDoneOp ==
    \E u \in Units :
        /\ sch.entry # EntryNone
        /\ node[u].status = Waiting
        /\ stack.modules[u].Flag = FlagAssumeAlreadyApplied
        /\ node' = [node EXCEPT ![u].status = Finished, ![u].outcome = Success]
        /\ UNCHANGED <<reportVars, stack, sch, resolveVars, reportIOVars>>

\* Excluded: a Run with result excluded, no backend.
ExcludedDoneOp ==
    \E u \in Units, reason \in {ReasonExcludeDir, ReasonExcludeBlock},
       t \in now..MaxTime :
        /\ sch.entry # EntryNone
        /\ node[u].status = Waiting
        /\ stack.modules[u].Flag = FlagExcluded
        /\ now' = t
        /\ Runs' = RecordRun(Runs, u,
                       <<WithResult(ResultExcluded), WithReason(reason)>>, t)
        /\ node' = [node EXCEPT ![u].status = Finished, ![u].outcome = Success]
        /\ UNCHANGED <<pending, last, stack, sch, resolveVars, reportIOVars>>

\* Failure propagation: a node with a dependency that failed or early-exited
\* is early-exited itself, its Run starting and ending now.
EarlyExitOp ==
    \E u \in Units, t \in now..MaxTime :
        /\ sch.entry # EntryNone
        /\ node[u].status = Waiting
        /\ stack.modules[u].Flag = FlagNone
        /\ \E d \in FailedDeps(u) :
            /\ Runs' = RecordRun(Runs, u,
                           <<WithResult(ResultEarlyExit),
                             WithReason(ReasonAncestorExit),
                             WithCauseAncestorExit(CauseFrom(d))>>, t)
            /\ node' = [node EXCEPT ![u].status = Finished,
                                    ![u].outcome = EarlyExit,
                                    ![u].cause = CauseFrom(d)]
        /\ now' = t
        /\ UNCHANGED <<pending, last, stack, sch, resolveVars, reportIOVars>>

\* A worker of the pool takes a node whose dependencies all succeeded: it
\* adds the node's Run and invokes the backend.
StartOp ==
    \E u \in Units, t \in now..MaxTime :
        /\ sch.entry # EntryNone
        /\ node[u].status = Waiting
        /\ stack.modules[u].Flag = FlagNone
        /\ \A d \in ActiveDeps(sch.entry, u) :
              node[d].status = Finished /\ node[d].outcome = Success
        /\ RunningCount < sch.parallelism
        /\ now' = t
        /\ Runs' = AddRun(Runs, NewRun(u, t).run).runs
        /\ node' = [node EXCEPT ![u].status = Running, ![u].invoked = TRUE]
        /\ UNCHANGED <<pending, last, stack, sch, resolveVars, reportIOVars>>

\* The backend returns: the worker ends the Run and the node is Finished.
FinishOp ==
    \E u \in Units, ok \in BOOLEAN, t \in now..MaxTime :
        /\ node[u].status = Running
        /\ now' = t
        /\ Runs' = EndRun(Runs, u,
                      IF ok THEN <<>>
                      ELSE <<WithResult(ResultFailed), WithReason(ReasonRunError)>>,
                      t).runs
        /\ node' = [node EXCEPT ![u].status = Finished,
                                ![u].outcome = IF ok THEN Success ELSE Failure]
        /\ UNCHANGED <<pending, last, stack, sch, resolveVars, reportIOVars>>

SchedNext ==
    \/ StackRunOp
    \/ AssumedDoneOp
    \/ ExcludedDoneOp
    \/ EarlyExitOp
    \/ StartOp
    \/ FinishOp

\* A stack ready to run, its report empty.
SchedStart == ReportInit /\ SchedInit /\ ResolveIdle /\ ReportIOIdle

SchedSpec == SchedStart /\ [][SchedNext]_vars

(***************************************************************************)
(* createStackForTerragruntConfigPaths and the module resolver.             *)
(*                                                                          *)
(* A TerraformModulesMap is a function from module paths to positions of    *)
(* the heap, the sequence of the TerraformModule structs allocated so far:  *)
(* the maps of the source hold pointers, and a flag set through one map     *)
(* shows through every other map that holds the same pointer. The state a   *)
(* call threads through is st = [heap, memo, log]; memo is the package's    *)
(* existingModules cache and log the sequence of effects (credentials       *)
(* acquired, configs parsed, confirmations asked, phases run).              *)
(*                                                                          *)
(* Go ranges over a map in no specified order; the model takes the sorted   *)
(* order, so the order of the confirmations of one module's external        *)
(* dependencies in the log is one of the orders the program can take.       *)
(***************************************************************************)
\* The nesting of resolveModules calls the goroutine stack of the model
\* holds; resolving an acyclic graph over ResolveUnits never gets there.
MaxStackDepth == 4

\* The constant of the package, scaled down (the specification gives 1000).
maxLevelsOfRecursion == 3

\* The units that exist on disk: two inside the working directory and
\* three outside of it.
ResolveUnits == {PA, PB, PX, PY, PZ}

\* The order of the paths as strings.
PathRank(p) ==
    CASE p = PA -> 1 [] p = PB -> 2 [] p = PC -> 3 [] p = PD -> 4
      [] p = PX -> 5 [] p = PY -> 6 [] p = PZ -> 7 [] OTHER -> 8

DefaultTerragruntConfigPath == "terragrunt.hcl"

\* config.GetDefaultConfigPath
GetDefaultConfigPath(dir) == Append(dir, DefaultTerragruntConfigPath)

\* filepath.Dir
Dir(path) == SubSeq(path, 1, Len(path) - 1)

EmptyMap == [p \in {} |-> 0]

\* mergeMaps and collections.MergeMaps: the entries of both, those of the
\* second where both have one.
mergeMaps(a, b) ==
    [p \in DOMAIN a \cup DOMAIN b |-> IF p \in DOMAIN b THEN b[p] ELSE a[p]]

RECURSIVE SortPaths(_)
SortPaths(S) ==
    IF S = {} THEN <<>>
    ELSE LET lo == CHOOSE p \in S : \A q \in S : PathRank(p) <= PathRank(q)
         IN <<lo>> \o SortPaths(S \ {lo})

getSortedKeys(modulesMap) == SortPaths(DOMAIN modulesMap)

KindNil == "nil"
KindNoTerraformModulesFound == "NoTerraformModulesFound"
KindProcessingModuleError == "ProcessingModuleError"
KindInfiniteRecursion == "InfiniteRecursion"
KindDependencyCycle == "DependencyCycle"
KindUnrecognizedDependency == "UnrecognizedDependency"
KindStackOverflow == "fatal error: stack overflow"

ErrorOf(kind) == [kind |-> kind, ModulePath |-> <<>>, UnderlyingError |-> ""]
NoError == ErrorOf(KindNil)
ErrNoTerraformModulesFound == ErrorOf(KindNoTerraformModulesFound)
InfiniteRecursionError == ErrorOf(KindInfiniteRecursion)
DependencyCycleError == ErrorOf(KindDependencyCycle)
UnrecognizedDependencyError == ErrorOf(KindUnrecognizedDependency)
StackOverflow == ErrorOf(KindStackOverflow)
ErrNotExist == "file does not exist"
ErrParse == "parse error"
ProcessingModuleError(path, underlying) ==
    [kind |-> KindProcessingModuleError, ModulePath |-> path,
     UnderlyingError |-> underlying]

\* &TerraformModule{...}; Paths is Config.Dependencies.Paths.
TerraformModule(path, paths, excluded) ==
    [Path |-> path, Paths |-> paths, FlagExcluded |-> excluded,
     AssumeAlreadyApplied |-> FALSE]

EvCreds == "credentials"
EvParse == "parse"
EvConfirm == "confirm"
EvPhase == "phase"

EmptyState == [heap |-> <<>>, memo |-> EmptyMap, log |-> <<>>]
Alloc(st, module) == [st EXCEPT !.heap = Append(@, module)]
Log(st, ev, path) == [st EXCEPT !.log = Append(@, <<ev, path>>)]
Returns(map, err, st) == [map |-> map, err |-> err, st |-> st]

\* What can be wrong with the units on disk and what the options exclude.
NoFault == [ExcludeDirs |-> {}, ParseFail |-> {}, Missing |-> {}, NoTerraform |-> {}]
Faults ==
    {NoFault,
     [NoFault EXCEPT !.ExcludeDirs = {PB}],
     [NoFault EXCEPT !.ParseFail = {GetDefaultConfigPath(PB)}],
     [NoFault EXCEPT !.ParseFail = {GetDefaultConfigPath(PY)}],
     [NoFault EXCEPT !.Missing = {GetDefaultConfigPath(PB)}],
     [NoFault EXCEPT !.ParseFail = {GetDefaultConfigPath(PA)}],
     [NoFault EXCEPT !.Missing = {GetDefaultConfigPath(PA)}],
     [NoFault EXCEPT !.NoTerraform = {PB}]}

\* The dependencies blocks of the model: a unit names at most one other
\* unit, out of two. The graphs hold cycles inside the working directory
\* (/w/a, /w/b), outside of it (/x/e, /x/f and /x/e, /x/f, /x/g) and across
\* (/w/a, /x/e), and a unit outside of it that names one inside (/x/f, /w/b).
DepTargets(u) ==
    CASE u = PA -> {PB, PX}
      [] u = PB -> {PA, PX}
      [] u = PX -> {PA, PY}
      [] u = PY -> {PB, PX, PZ}
      [] u = PZ -> {PX}
      [] OTHER -> {}
DepChoices(u) == {<<>>} \cup {<<v>> : v \in DepTargets(u)}
DependencyGraphs ==
    {g \in [ResolveUnits -> UNION {DepChoices(u) : u \in ResolveUnits}] :
        \A u \in ResolveUnits : g[u] \in DepChoices(u)}

\* IgnoreExternalDependencies and the answers of the confirmation prompt
\* (Declined: the external units the user does not want applied).
Confirmations ==
    {[IgnoreExternalDependencies |-> TRUE, Declined |-> {}],
     [IgnoreExternalDependencies |-> FALSE, Declined |-> {}],
     [IgnoreExternalDependencies |-> FALSE, Declined |-> {PX}],
     [IgnoreExternalDependencies |-> FALSE, Declined |-> {PX, PY, PZ}]}

\* terragruntConfigPaths, as found under the working directory.
ConfigPathLists ==
    {<<>>, <<GetDefaultConfigPath(PA)>>,
     <<GetDefaultConfigPath(PA), GetDefaultConfigPath(PB)>>}

Configs ==
    [Deps : DependencyGraphs, Paths : ConfigPathLists,
     Confirm : Confirmations, Fault : Faults,
     TerraformCommand : {CommandNameApply}]

resolveTerraformModuleParsingFirst(st, terragruntConfigPath, modulesMap) ==
    LET modulePath == Dir(terragruntConfigPath)
        parsing == Log(Log(st, EvCreds, terragruntConfigPath),
                       EvParse, terragruntConfigPath)
    IN  IF modulePath \in DOMAIN modulesMap
        THEN [module |-> 0, err |-> NoError, st |-> st]
        ELSE IF terragruntConfigPath \in cfg.Fault.ParseFail
        THEN [module |-> 0,
              err |-> ProcessingModuleError(terragruntConfigPath, ErrParse),
              st |-> parsing]
        ELSE IF modulePath \in cfg.Fault.NoTerraform
        THEN [module |-> 0, err |-> NoError, st |-> parsing]
        ELSE [module |-> Len(st.heap) + 1, err |-> NoError,
              st |-> Alloc(parsing,
                        TerraformModule(modulePath, cfg.Deps[modulePath],
                            modulePath \in cfg.Fault.ExcludeDirs))]

\* resolveTerraformModule; module 0 is the nil module.
resolveTerraformModule(st, terragruntConfigPath, modulesMap) ==
    LET modulePath == Dir(terragruntConfigPath)
        parsing == Log(Log(st, EvCreds, terragruntConfigPath),
                       EvParse, terragruntConfigPath)
    IN  IF modulePath \in DOMAIN modulesMap
        THEN [module |-> 0, err |-> NoError, st |-> st]
        ELSE IF modulePath \in cfg.Fault.ExcludeDirs
        THEN [module |-> Len(st.heap) + 1, err |-> NoError,
              st |-> Alloc(st, TerraformModule(modulePath, <<>>, TRUE))]
        ELSE IF terragruntConfigPath \in cfg.Fault.ParseFail
        THEN [module |-> 0,
              err |-> ProcessingModuleError(terragruntConfigPath, ErrParse),
              st |-> parsing]
        ELSE IF modulePath \in cfg.Fault.NoTerraform
        THEN [module |-> 0, err |-> NoError, st |-> parsing]
        ELSE [module |-> Len(st.heap) + 1, err |-> NoError,
              st |-> Alloc(parsing,
                        TerraformModule(modulePath, cfg.Deps[modulePath], FALSE))]

RECURSIVE resolveModulesFrom(_, _, _, _, _)
RECURSIVE resolveModulesWithModule(_, _, _, _, _)
RECURSIVE resolveModulesWithDependencies(_, _, _, _, _)
RECURSIVE resolveModules(_, _, _)
RECURSIVE resolveDependenciesForModule(_, _, _, _, _)

\* The loop of resolveModules from the i-th path on, modulesMap being what the
\* paths before it gave.
resolveModulesFrom(st, paths, i, modulesMap, depth) ==
    IF i > Len(paths) THEN Returns(modulesMap, NoError, st)
    ELSE IF paths[i] \in cfg.Fault.Missing
    THEN Returns(EmptyMap, ProcessingModuleError(paths[i], ErrNotExist), st)
    ELSE resolveModulesWithModule(
            resolveTerraformModule(st, paths[i], modulesMap),
            paths, i, modulesMap, depth)

resolveModulesPastErrors(m, paths, i, modulesMap, depth) ==
    IF m.err # NoError \/ m.module = 0
    THEN resolveModulesFrom(m.st, paths, i + 1, modulesMap, depth)
    ELSE resolveModulesWithDependencies(
            resolveDependenciesForModule(m.st, m.module,
                mergeMaps(modulesMap, Dir(paths[i]) :> m.module), TRUE, depth),
            paths, i, mergeMaps(modulesMap, Dir(paths[i]) :> m.module), depth)

\* The body of the loop once resolveTerraformModule returned m.
resolveModulesWithModule(m, paths, i, modulesMap, depth) ==
    IF m.err # NoError THEN Returns(modulesMap, m.err, m.st)
    ELSE IF m.module = 0
    THEN resolveModulesFrom(m.st, paths, i + 1, modulesMap, depth)
    ELSE resolveModulesWithDependencies(
            resolveDependenciesForModule(m.st, m.module,
                mergeMaps(modulesMap, Dir(paths[i]) :> m.module), TRUE, depth),
            paths, i, mergeMaps(modulesMap, Dir(paths[i]) :> m.module), depth)

\* The body of the loop once resolveDependenciesForModule returned d.
resolveModulesWithDependencies(d, paths, i, modulesMap, depth) ==
    IF d.err # NoError THEN Returns(modulesMap, d.err, d.st)
    ELSE resolveModulesFrom(d.st, paths, i + 1,
                            mergeMaps(modulesMap, d.map), depth)

\* resolveModules, depth calls of it being on the stack already.
resolveModules(st, canonicalTerragruntConfigPaths, depth) ==
    IF depth > MaxStackDepth THEN Returns(EmptyMap, StackOverflow, st)
    ELSE resolveModulesFrom(st, canonicalTerragruntConfigPaths, 1, EmptyMap, depth)

\* The end of resolveDependenciesForModule: existingModules.Put when
\* resolveModules returned no error.
putExistingModules(result, key) ==
    IF result.err # NoError THEN Returns(EmptyMap, result.err, result.st)
    ELSE Returns(result.map, NoError,
                 [result.st EXCEPT !.memo = (key :> result.map) @@ @])

resolveDependenciesForModule(st, module, modulesMap, skipExternal, depth) ==
    LET m == st.heap[module]
        key == <<m.Path, WorkingDir, skipExternal, cfg.TerraformCommand>>
        wanted(dependencyPath) ==
            /\ ~(skipExternal /\ ~HasPathPrefix(dependencyPath, WorkingDir))
            /\ dependencyPath \notin DOMAIN modulesMap
        dependencyPaths == SelectSeq(m.Paths, wanted)
        externalTerragruntConfigPaths ==
            [k \in 1..Len(dependencyPaths) |->
                GetDefaultConfigPath(dependencyPaths[k])]
    IN  IF m.Paths = <<>> THEN Returns(EmptyMap, NoError, st)
        ELSE IF key \in DOMAIN st.memo THEN Returns(st.memo[key], NoError, st)
        ELSE putExistingModules(
                resolveModules(st, externalTerragruntConfigPaths, depth + 1),
                key)

RECURSIVE confirmDependencies(_, _, _, _, _, _)
RECURSIVE resolveExternalFrom(_, _, _, _, _, _)
RECURSIVE resolveExternalWithDependencies(_, _, _, _, _, _)
RECURSIVE resolveExternalWithConfirmed(_, _, _, _, _)
RECURSIVE resolveExternalWithFound(_, _, _)
RECURSIVE resolveExternalDependenciesForModules(_, _, _, _)

\* The inner loop of resolveExternalDependenciesForModules over the external
\* dependencies of one module, from the j-th key on.
confirmDependencies(st, externalDependencies, keys, j, modulesToSkip, all) ==
    IF j > Len(keys) THEN Returns(all, NoError, st)
    ELSE IF keys[j] \in DOMAIN modulesToSkip
    THEN confirmDependencies(st, externalDependencies, keys, j + 1,
                             modulesToSkip, all)
    ELSE
        LET ask == ~cfg.Confirm.IgnoreExternalDependencies
            shouldApply == ask /\ keys[j] \notin cfg.Confirm.Declined
            asked == IF ask THEN Log(st, EvConfirm, keys[j]) ELSE st
        IN  confirmDependencies(
                [asked EXCEPT
                    !.heap[externalDependencies[keys[j]]].AssumeAlreadyApplied =
                        ~shouldApply],
                externalDependencies, keys, j + 1, modulesToSkip,
                mergeMaps(all, keys[j] :> externalDependencies[keys[j]]))

\* Its outer loop over the sorted keys of modulesMap, from the i-th on.
resolveExternalFrom(st, modulesMap, keys, i, modulesToSkip, all) ==
    IF i > Len(keys) THEN Returns(all, NoError, st)
    ELSE resolveExternalWithDependencies(
            resolveDependenciesForModule(st, modulesMap[keys[i]],
                                         modulesToSkip, FALSE, 0),
            modulesMap, keys, i, modulesToSkip, all)

\* The body of the outer loop once resolveDependenciesForModule returned d.
resolveExternalWithDependencies(d, modulesMap, keys, i, modulesToSkip, all) ==
    IF d.err # NoError THEN d
    ELSE resolveExternalWithConfirmed(
            confirmDependencies(d.st, d.map, getSortedKeys(d.map), 1,
                                modulesToSkip, all),
            modulesMap, keys, i, modulesToSkip)

\* ... and once its external dependencies are confirmed.
resolveExternalWithConfirmed(c, modulesMap, keys, i, modulesToSkip) ==
    resolveExternalFrom(c.st, modulesMap, keys, i + 1, modulesToSkip, c.map)

\* The end of resolveExternalDependenciesForModules once the recursive call
\* returned.
resolveExternalWithRecursive(recursiveDependencies, allExternalDependencies) ==
    IF recursiveDependencies.err # NoError
    THEN Returns(allExternalDependencies, recursiveDependencies.err,
                 recursiveDependencies.st)
    ELSE Returns(mergeMaps(allExternalDependencies, recursiveDependencies.map),
                 NoError, recursiveDependencies.st)

\* What follows its loop: found holds allExternalDependencies.
resolveExternalWithFound(found, modulesMap, recursionLevel) ==
    IF found.err # NoError THEN found
    ELSE IF DOMAIN found.map = {} THEN found
    ELSE resolveExternalWithRecursive(
            resolveExternalDependenciesForModules(found.st, found.map,
                modulesMap, recursionLevel + 1),
            found.map)

resolveExternalOneLevelLess(st, modulesMap, modulesAlreadyProcessed, recursionLevel) ==
    IF recursionLevel >= maxLevelsOfRecursion
    THEN Returns(EmptyMap, InfiniteRecursionError, st)
    ELSE resolveExternalWithFound(
            resolveExternalFrom(st, modulesMap, getSortedKeys(modulesMap), 1,
                mergeMaps(modulesMap, modulesAlreadyProcessed), EmptyMap),
            modulesMap, recursionLevel)

resolveExternalDependenciesForModules(st, modulesMap, modulesAlreadyProcessed, recursionLevel) ==
    IF recursionLevel > maxLevelsOfRecursion
    THEN Returns(EmptyMap, InfiniteRecursionError, st)
    ELSE resolveExternalWithFound(
            resolveExternalFrom(st, modulesMap, getSortedKeys(modulesMap), 1,
                mergeMaps(modulesMap, modulesAlreadyProcessed), EmptyMap),
            modulesMap, recursionLevel)

\* crosslinkDependencies: the modules of the map in the order of their
\* paths, each with the paths of its dependencies; a dependency the map does
\* not hold is fatal.
crosslinkDependencies(heap, modulesMap) ==
    LET keys == getSortedKeys(modulesMap)
        Range(s) == {s[k] : k \in 1..Len(s)}
        linked == [k \in 1..Len(keys) |->
                    [Path |-> heap[modulesMap[keys[k]]].Path,
                     Dependencies |-> Range(heap[modulesMap[keys[k]]].Paths),
                     FlagExcluded |-> heap[modulesMap[keys[k]]].FlagExcluded,
                     AssumeAlreadyApplied |->
                        heap[modulesMap[keys[k]]].AssumeAlreadyApplied]]
    IN  IF \E k \in 1..Len(keys) :
              ~(linked[k].Dependencies \subseteq DOMAIN modulesMap)
        THEN [modules |-> <<>>, err |-> UnrecognizedDependencyError]
        ELSE [modules |-> linked, err |-> NoError]

\* flagExcludedDirs: the modules whose path is in ExcludeDirs are excluded.
flagExcludedDirs(modules) ==
    [k \in 1..Len(modules) |->
        IF modules[k].Path \in cfg.Fault.ExcludeDirs
        THEN [modules[k] EXCEPT !.FlagExcluded = TRUE]
        ELSE modules[k]]

PhaseResolveModules == <<"resolve_modules">>
PhaseResolveExternal == <<"resolve_external_dependencies_for_modules">>
PhaseCrosslink == <<"crosslink_dependencies">>
PhaseFlagIncludedDirs == <<"flag_included_dirs">>
PhaseFlagUnitsThatAreIncluded == <<"flag_units_that_are_included">>
PhaseFlagExcludedUnits == <<"flag_excluded_units">>
PhaseFlagUnitsThatRead == <<"flag_units_that_read">>
PhaseFlagExcludedDirs == <<"flag_excluded_dirs">>
PhaseCheckForCycles == <<"check_for_cycles">>

RECURSIVE LogAll(_, _, _)
LogAll(st, ev, paths) ==
    IF paths = <<>> THEN st ELSE LogAll(Log(st, ev, Head(paths)), ev, Tail(paths))

\* ResolveTerraformModules from the flag passes on. With no include dirs,
\* exclude blocks and read files in the options, the passes between crosslink
\* and flagExcludedDirs leave the modules as they are.
resolveFlags(crossLinkedModules, st) ==
    IF crossLinkedModules.err # NoError
    THEN [modules |-> <<>>, err |-> crossLinkedModules.err, st |-> st]
    ELSE [modules |-> flagExcludedDirs(crossLinkedModules.modules),
          err |-> NoError,
          st |-> LogAll(st, EvPhase,
                    <<PhaseFlagIncludedDirs, PhaseFlagUnitsThatAreIncluded,
                      PhaseFlagExcludedUnits, PhaseFlagUnitsThatRead,
                      PhaseFlagExcludedDirs>>)]

\* ... from crosslink on; heap holds the modules as the phases before it
\* left them.
resolveCrosslink(heap, modulesMap, externalDependencies, st) ==
    resolveFlags(
        crosslinkDependencies(heap, mergeMaps(modulesMap, externalDependencies)),
        st)

\* ... from the end of the external resolution on.
resolveWithExternal(external, modulesMap) ==
    IF external.err # NoError
    THEN [modules |-> <<>>, err |-> external.err, st |-> external.st]
    ELSE resolveCrosslink(external.st.heap, modulesMap, external.map,
                          Log(external.st, EvPhase, PhaseCrosslink))

resolveWithInternalPastErrors(internal) ==
    resolveWithExternal(
        resolveExternalDependenciesForModules(
            Log(internal.st, EvPhase, PhaseResolveExternal),
            internal.map, EmptyMap, 0),
        internal.map)

\* ... from the end of the internal resolution on.
resolveWithInternal(internal) ==
    IF internal.err # NoError
    THEN [modules |-> <<>>, err |-> internal.err, st |-> internal.st]
    ELSE resolveWithExternal(
            resolveExternalDependenciesForModules(
                Log(internal.st, EvPhase, PhaseResolveExternal),
                internal.map, EmptyMap, 0),
            internal.map)

ResolveTerraformModules(st, terragruntConfigPaths) ==
    resolveWithInternal(
        resolveModules(Log(st, EvPhase, PhaseResolveModules),
                       terragruntConfigPaths, 0))

\* The paths reached from those of S along the function next, in at most k
\* steps.
RECURSIVE ReachAlong(_, _, _)
ReachAlong(S, next, k) ==
    IF k = 0 THEN S
    ELSE ReachAlong(S \cup UNION {next[p] : p \in S}, next, k - 1)

\* CheckForCycles: some module is among the dependencies of its dependencies.
CheckForCycles(modules) ==
    LET Paths == {modules[k].Path : k \in 1..Len(modules)}
        ByPath(p) == CHOOSE k \in 1..Len(modules) : modules[k].Path = p
        deps == [p \in Paths |-> modules[ByPath(p)].Dependencies]
    IN  \E k \in 1..Len(modules) :
            modules[k].Path \in
                ReachAlong(modules[k].Dependencies, deps, Len(modules))

\* createStackForTerragruntConfigPaths once ResolveTerraformModules returned
\* r: SetModules, then CheckForCycles.
createStackWithModules(r, modules) ==
    IF r.err # NoError
    THEN [modules |-> modules, err |-> r.err, st |-> r.st]
    ELSE [modules |-> r.modules,
          err |-> IF CheckForCycles(r.modules) THEN DependencyCycleError
                  ELSE NoError,
          st |-> Log(r.st, EvPhase, PhaseCheckForCycles)]

createStackResolvingFirst(modules, terragruntConfigPaths) ==
    createStackWithModules(
        ResolveTerraformModules(EmptyState, terragruntConfigPaths), modules)

\* createStackForTerragruntConfigPaths, called on a stack that holds modules.
createStackForTerragruntConfigPaths(modules, terragruntConfigPaths) ==
    IF Len(terragruntConfigPaths) = 0
    THEN [modules |-> modules, err |-> ErrNoTerraformModulesFound,
          st |-> EmptyState]
    ELSE createStackWithModules(
            ResolveTerraformModules(EmptyState, terragruntConfigPaths), modules)

CallIdle == "idle"
CallReturned == "returned"
CallCrashed == "crashed"

\* The modules of the stack before the call: none, or the one an earlier
\* SetModules left, a unit /w/d with no dependencies.
PriorModules ==
    {<<>>, <<[Path |-> PD, Dependencies |-> {}, FlagExcluded |-> FALSE, AssumeAlreadyApplied |-> FALSE]>>}

ResolveInit ==
    /\ cfg \in Configs
    /\ \E modules \in PriorModules :
        res = [call |-> CallIdle, err |-> NoError, modules |-> modules,
               heap |-> <<>>, log |-> <<>>, backend |-> FALSE]
    /\ dependents = <<>>

\* What the caller has once the call ended with r. A stack overflow ends the
\* process instead of returning.
CallResult(r) ==
    [call |-> IF r.err = StackOverflow THEN CallCrashed ELSE CallReturned,
     err |-> r.err, modules |-> r.modules, heap |-> r.st.heap,
     log |-> r.st.log, backend |-> FALSE]

\* One call of createStackForTerragruntConfigPaths on the stack.
CreateStackOp ==
    /\ res.call = CallIdle
    /\ res' = CallResult(
                createStackForTerragruntConfigPaths(res.modules, cfg.Paths))
    /\ UNCHANGED <<reportVars, schedVars, cfg, dependents, reportIOVars>>

\* The caller runs the stack it got; it does not when the call failed.
RunStackOp ==
    /\ res.call = CallReturned
    /\ res.err = NoError
    /\ ~res.backend
    /\ res' = [res EXCEPT !.backend =
                  \E k \in 1..Len(res.modules) :
                      ~res.modules[k].FlagExcluded
                      /\ ~res.modules[k].AssumeAlreadyApplied]
    /\ UNCHANGED <<reportVars, schedVars, cfg, dependents, reportIOVars>>

ResolveNext ==
    \/ CreateStackOp
    \/ RunStackOp

\* The units on disk and the options, before the stack is created.
ResolveStart == ReportInit /\ SchedIdle /\ ResolveInit /\ ReportIOIdle

ResolveSpec == ResolveStart /\ [][ResolveNext]_vars

(***************************************************************************)
(* ListStackDependentModules.                                               *)
(*                                                                          *)
(* dependentModules is a function from module paths to lists of paths. The  *)
(* loop ranges over the map in an order Go does not specify: a pass of the  *)
(* loop takes the keys in any order. The stack holds any module set over    *)
(* its units, with cycles and modules that depend on themselves: SetModules *)
(* installs the modules before CheckForCycles looks at them. The modules of *)
(* a stack are in the order of their paths.                                 *)
(***************************************************************************)
\* The modules of the stacks ListStackDependentModules is called on.
DependentUnits == Units \cup {PD}

\* The most dependencies a module of these stacks has.
MaxDependencies == 2

\* The most dependencies the modules of one of these stacks have together.
MaxDeclared == 5

\* The dependencies declared in a module set, as pairs.
Declared(modules) ==
    {e \in (DOMAIN modules) \X (DOMAIN modules) : e[2] \in modules[e[1]].Dependencies}

\* The stacks ListStackDependentModules is called on.
DependencySets ==
    {modules \in [DependentUnits ->
                    [Dependencies : {D \in SUBSET DependentUnits :
                                        Cardinality(D) <= MaxDependencies},
                     Flag : {FlagNone}]] :
        Cardinality(Declared(modules)) <= MaxDeclared}

\* util.RemoveDuplicatesFromList: the first occurrence of every element.
RemoveDuplicatesFromList(list) ==
    LET Firsts == {k \in 1..Len(list) : \A j \in 1..(k - 1) : list[j] # list[k]}
        Nth(n) == CHOOSE k \in Firsts : Cardinality({j \in Firsts : j <= k}) = n
    IN  [n \in 1..Cardinality(Firsts) |-> list[Nth(n)]]

\* util.RemoveElementFromList
RemoveElementFromList(list, element) ==
    LET Other(e) == e # element IN SelectSeq(list, Other)

\* dependentModules[key], the nil slice when the map has no such key.
Lookup(map, key) == IF key \in DOMAIN map THEN map[key] ELSE <<>>

\* The first loop: every module is appended to the list of each of its
\* dependencies, the modules taken in the order of the stack.
RECURSIVE initialDependents(_, _, _)
initialDependents(modules, order, map) ==
    IF order = <<>> THEN map
    ELSE LET module == Head(order)
             deps == SortPaths(modules[module].Dependencies)
             add(m, k) ==
                 (deps[k] :> RemoveDuplicatesFromList(
                                Append(Lookup(m, deps[k]), module))) @@ m
             adding[k \in 0..Len(deps)] ==
                 IF k = 0 THEN map ELSE add(adding[k - 1], k)
         IN  initialDependents(modules, Tail(order), adding[Len(deps)])

\* The body of the inner loop: the list of the dependent is merged into the
\* list of the module, without duplicates and without the module itself.
mergeDependents(map, module, dependent) ==
    [map EXCEPT ![module] = RemoveElementFromList(
        RemoveDuplicatesFromList(map[module] \o Lookup(map, dependent)), module)]

\* The inner loop over dependents, the slice the range statement evaluated
\* when it started, from its k-th element on.
RECURSIVE mergeAll(_, _, _, _)
mergeAll(p, module, dependentsOfModule, k) ==
    IF k > Len(dependentsOfModule) THEN p
    ELSE LET merged == mergeDependents(p.map, module, dependentsOfModule[k])
         IN  mergeAll([map |-> merged,
                       noUpdates |-> p.noUpdates
                          /\ Len(merged[module]) = Len(p.map[module])],
                      module, dependentsOfModule, k + 1)

\* One pass of the outer loop, the keys of the map taken in the given order.
RECURSIVE onePass(_, _)
onePass(p, order) ==
    IF order = <<>> THEN p
    ELSE onePass(mergeAll(p, Head(order), p.map[Head(order)], 1), Tail(order))

\* The orders of n map keys.
KeyOrders == [n \in 0..Cardinality(DependentUnits) |-> Perms(n)]

\* The orders in which a range statement can take the keys of map.
RangeOrders(map) ==
    LET keys == SortPaths(DOMAIN map)
    IN  {[i \in 1..Len(keys) |-> keys[q[i]]] : q \in KeyOrders[Len(keys)]}

ListIdle == "idle"
ListLooping == "looping"
ListReturned == "returned"

\* The most passes the loop takes on the module sets of the model.
MaxPasses == 3

DependentsInit ==
    /\ stack \in [opts : {[IgnoreDependencyOrder |-> FALSE,
                           TerraformCommand |-> CommandNameApply,
                           Parallelism |-> 1, OutputFolder |-> ""]},
                  modules : DependencySets]
    /\ dependents = [call |-> ListIdle, map |-> EmptyMap, passes |-> 0]

\* The call of ListStackDependentModules up to its fixpoint loop.
ListStartOp ==
    /\ dependents.call = ListIdle
    /\ dependents' = [call |-> ListLooping,
                      map |-> initialDependents(stack.modules,
                                  SortPaths(DOMAIN stack.modules), EmptyMap),
                      passes |-> 0]
    /\ UNCHANGED <<reportVars, schedVars, cfg, res, reportIOVars>>

\* One pass of the loop; the call returns after a pass without update.
ListPassOp ==
    \E order \in RangeOrders(dependents.map) :
        LET p == onePass([map |-> dependents.map, noUpdates |-> TRUE], order)
        IN  /\ dependents.call = ListLooping
            /\ dependents.passes <= MaxPasses
            /\ dependents' =
                  [call |-> IF p.noUpdates THEN ListReturned ELSE ListLooping,
                   map |-> p.map,
                   passes |-> dependents.passes + 1]
            /\ UNCHANGED <<reportVars, schedVars, cfg, res, reportIOVars>>

DependentsNext ==
    \/ ListStartOp
    \/ ListPassOp

\* A stack with its modules, before ListStackDependentModules is called.
DependentsStart ==
    /\ ReportInit
    /\ DependentsInit
    /\ sch = <<>>
    /\ node = <<>>
    /\ cfg = <<>>
    /\ res = <<>>
    /\ ReportIOIdle

DependentsSpec == DependentsStart /\ [][DependentsNext]_vars

(***************************************************************************)
(* Claims about ListStackDependentModules, under DependentsSpec.            *)
(***************************************************************************)
\* The modules that depend on module p, directly or through other modules.
TransitiveDependents(modules, p) ==
    LET direct == [q \in DOMAIN modules |->
                      {d \in DOMAIN modules : q \in modules[d].Dependencies}]
    IN  ReachAlong(direct[p], direct, Cardinality(DOMAIN modules))

\* The elements of a list.
Elements(list) == {list[k] : k \in 1..Len(list)}

\* C32: ListStackDependentModules returns a map whose keys are the modules
\* with a dependent, and the list of a key holds, once each and without the
\* key itself, the modules that depend on it directly or through others;
\* the fixpoint loop returns after a bounded number of passes.
C32_TransitiveDependents ==
    /\ dependents.call = ListLooping => dependents.passes < MaxPasses
    /\ dependents.call = ListReturned =>
          /\ DOMAIN dependents.map =
                {p \in DOMAIN stack.modules :
                    \E d \in DOMAIN stack.modules : p \in stack.modules[d].Dependencies}
          /\ \A p \in DOMAIN dependents.map :
                /\ Elements(dependents.map[p]) =
                      TransitiveDependents(stack.modules, p) \ {p}
                /\ Len(dependents.map[p]) = Cardinality(Elements(dependents.map[p]))

\* C32 where no module depends on itself.
C32_WithoutSelfDependency ==
    (\A p \in DOMAIN stack.modules : p \notin stack.modules[p].Dependencies)
        => C32_TransitiveDependents

(***************************************************************************)
(* Claims about the Report API, checked under Spec.                         *)
(***************************************************************************)
HasName(runs, name) == \E i \in 1..Len(runs) : runs[i].Name = name

NoDuplicateNames(runs) ==
    \A i, j \in 1..Len(runs) : i # j => runs[i].Name # runs[j].Name

\* What a step that is the call AddRun(last'.run) has to do.
AddRunContract ==
    last'.op = "AddRun" =>
        IF HasName(Runs, last'.run.Name)
        THEN last'.err = ErrRunAlreadyExists /\ Runs' = Runs
        ELSE last'.err = ErrNone /\ Runs' = Append(Runs, last'.run)

\* C1: in every reachable state no two Runs of the report share a Name, and
\* every AddRun(run) step appends run at the end of Runs when no Run has its
\* Name and otherwise returns RunAlreadyExists leaving Runs as it was.
C1_UniqueNames ==
    /\ [](NoDuplicateNames(Runs))
    /\ [][AddRunContract]_vars

\* An AddRun was refused as a duplicate while the report held two Runs, both
\* appended by earlier AddRun calls.
C1_Witness ==
    /\ last.op = "AddRun"
    /\ last.err = ErrRunAlreadyExists
    /\ Len(Runs) = 2

\* The value of the last option of a kind in opts, dflt when there is none.
LastOfKind(opts, kind, dflt) ==
    IF \E k \in 1..Len(opts) : opts[k].kind = kind
    THEN opts[CHOOSE k \in 1..Len(opts) :
                /\ opts[k].kind = kind
                /\ \A m \in (k + 1)..Len(opts) : opts[m].kind # kind].v
    ELSE dflt

\* What EndRun(path, opts...) reading t from the clock returns for the
\* report runs, when path names the Run at place i.
EndRunContract(runs, path, opts, t) ==
    LET r == EndRun(runs, path, opts, t)
        i == CHOOSE k \in 1..Len(runs) : runs[k].Name = path
    IN
    /\ r.err = ErrNone
    /\ Len(r.runs) = Len(runs)
    /\ \A j \in 1..Len(runs) : j # i => r.runs[j] = runs[j]
    /\ r.runs[i].Name = runs[i].Name
    /\ r.runs[i].Started = runs[i].Started
    /\ r.runs[i].Ended = t
    /\ r.runs[i].Result = LastOfKind(opts, "result", ResultSucceeded)
    /\ r.runs[i].Reason = LastOfKind(opts, "reason", runs[i].Reason)
    /\ r.runs[i].Cause = LastOfKind(opts, "cause", runs[i].Cause)

\* C6: EndRun(path, opts...) with an absolute path naming a Run sets that
\* Run's Ended to the time read and its Result to succeeded, then applies the
\* options in order (the last option of a kind wins); no other Run changes,
\* nor the length or the order of Runs. Stated of every call EndRunOp can
\* make in a reachable state.
C6_EndRunEffect ==
    \A path \in AbsPaths, opts \in OptLists, t \in now..MaxTime :
        HasName(Runs, path) => EndRunContract(Runs, path, opts, t)

\* The second Run of the report was ended with two WithResult options and
\* carries the later one.
C6_Witness ==
    /\ last.op = "EndRun"
    /\ last.err = ErrNone
    /\ Len(Runs) = 2
    /\ last.path = Runs[2].Name
    /\ Runs[2].Result = ResultEarlyExit
    /\ Runs[2].Cause = "blk"
    /\ Runs[1].Ended = ZeroTime

LookupContract ==
    /\ (last'.op = "GetRun" /\ IsAbs(last'.path)) =>
          /\ Runs' = Runs
          /\ pending' = pending
          /\ IF HasName(Runs, last'.path)
             THEN /\ last'.err = ErrNone
                  /\ last'.run.Name = last'.path
                  /\ \E i \in 1..Len(Runs) : Runs[i] = last'.run
             ELSE /\ last'.err = ErrRunNotFound
                  /\ last'.run = NilRun
    /\ (last'.op = "EndRun" /\ IsAbs(last'.path) /\ ~HasName(Runs, last'.path)) =>
          /\ last'.err = ErrRunNotFound
          /\ Runs' = Runs
          /\ pending' = pending

\* C7: GetRun(path) with an absolute path returns the Run named path when the
\* report has one; GetRun and EndRun with an absolute path naming no Run
\* return RunNotFound and leave the Runs list and every Run as they were.
C7_Lookup == [][LookupContract]_vars

\* GetRun found the second Run of a report of two.
C7_Witness ==
    /\ last.op = "GetRun"
    /\ last.err = ErrNone
    /\ Len(Runs) = 2
    /\ last.run = Runs[2]
    /\ last.run # Runs[1]

AbsolutePathContract ==
    /\ (last'.op \in {"NewRun", "GetRun", "EndRun"} /\ ~IsAbs(last'.path)) =>
          /\ last'.err = ErrPathMustBeAbsolute
          /\ last'.run = NilRun
          /\ Runs' = Runs
          /\ pending' = pending
    /\ (last'.op = "NewRun" /\ IsAbs(last'.path)) =>
          /\ last'.err = ErrNone
          /\ last'.run.Name = last'.path
          /\ last'.run.Started = now'
          /\ last'.run.Ended = ZeroTime
          /\ last'.run \in pending'
          /\ Runs' = Runs

\* C8: NewRun, GetRun and EndRun return PathMustBeAbsolute for a path that is
\* not absolute (never RunNotFound), NewRun returns no Run then, and the
\* report is not modified; for an absolute path NewRun returns a Run named
\* path, started at the time read, that is in no report yet.
C8_AbsolutePath == [][AbsolutePathContract]_vars

\* EndRun was refused for a relative path on a report that holds Runs.
C8_Witness ==
    /\ last.op = "EndRun"
    /\ ~IsAbs(last.path)
    /\ last.err = ErrPathMustBeAbsolute
    /\ Len(Runs) = 2

HasEnded(run) == run.Result # ResultNone \/ run.Ended # ZeroTime

\* C9: every Run that NewRun created and EndRun ended has Ended >= Started.
C9_EndedAfterStarted ==
    \A i \in 1..Len(Runs) : HasEnded(Runs[i]) => Runs[i].Ended >= Runs[i].Started

\* A Run started after the clock moved was ended, after another Run of the
\* report was ended too.
C9_Witness ==
    /\ Len(Runs) = 2
    /\ HasEnded(Runs[1])
    /\ HasEnded(Runs[2])
    /\ Runs[2].Started > 1
    /\ last.op = "EndRun"

\* The place of the Run named name in runs.
PlaceOf(runs, name) == CHOOSE k \in 1..Len(runs) : runs[k].Name = name

SortRunsContract ==
    last'.op = "SortRuns" =>
        /\ Len(Runs') = Len(Runs)
        /\ {Runs'[i] : i \in 1..Len(Runs')} = {Runs[i] : i \in 1..Len(Runs)}
        /\ \A i, j \in 1..Len(Runs') :
              i < j => Runs'[i].Started <= Runs'[j].Started
        /\ \A i, j \in 1..Len(Runs) :
              (i < j /\ Runs[i].Started = Runs[j].Started) =>
                  PlaceOf(Runs', Runs[i].Name) < PlaceOf(Runs', Runs[j].Name)

\* C10: SortRuns puts Runs into ascending Started order, keeps the set of
\* Runs, and is stable: Runs with equal Started keep their relative order.
C10_SortStable == [][SortRunsContract]_vars

\* C38: EndRun on a Run that was ended before sets Ended to the time read
\* and Result to succeeded and then applies the options, and the Reason and
\* the Cause of the earlier call stay unless an option sets them: a Run
\* ended as failed with a reason and ended again with no option is
\* succeeded with that reason. Stated of every call EndRunOp can make in a
\* reachable state.
C38_EndRunAgain ==
    \A path \in AbsPaths, opts \in OptLists, t \in now..MaxTime :
        LET i == IndexOfName(Runs, path)
            r == EndRun(Runs, path, opts, t)
        IN  i # 0 /\ Runs[i].Result # ResultNone =>
                /\ r.err = ErrNone
                /\ r.runs[i].Ended = t
                /\ r.runs[i].Result = LastOfKind(opts, "result", ResultSucceeded)
                /\ r.runs[i].Reason = LastOfKind(opts, "reason", Runs[i].Reason)
                /\ r.runs[i].Cause = LastOfKind(opts, "cause", Runs[i].Cause)
                /\ opts = <<>> /\ Runs[i].Result = ResultFailed /\ Runs[i].Reason # Nil =>
                      /\ r.runs[i].Result = ResultSucceeded
                      /\ r.runs[i].Reason = Runs[i].Reason

\* EndRun has ended a Run that is failed with a reason and a cause: with at
\* most MaxOpts options to a call, part of it is what an earlier EndRun left,
\* and every further EndRun on it is a call on an ended Run.
C38_Witness ==
    /\ last.op = "EndRun" /\ last.err = ErrNone
    /\ \E i \in 1..Len(Runs) :
        /\ Runs[i].Name = last.path
        /\ Runs[i].Result = ResultFailed
        /\ Runs[i].Reason = ReasonRunError
        /\ Runs[i].Cause # Nil

(***************************************************************************)
(* Claims about Run and the scheduler, checked under SchedSpec.             *)
(***************************************************************************)
\* The stack's options ask for an ordered run.
OrderedRun == sch.entry # EntryNone /\ ~stack.opts.IgnoreDependencyOrder

\* The nodes v waits for in the direction the options ask for: dependencies
\* first, dependents first for destroy.
DirDeps(v) ==
    IF stack.opts.TerraformCommand = CommandNameDestroy
    THEN {u \in Units : v \in stack.modules[u].Dependencies}
    ELSE stack.modules[v].Dependencies

\* The nodes that wait for u, directly.
DirDependents(u) == {v \in Units : u \in DirDeps(v)}

\* The nodes reached from those of S along DirDependents in at most k steps,
\* going only through nodes of Via.
RECURSIVE ReachVia(_, _, _)
ReachVia(S, Via, k) ==
    IF k = 0 THEN S
    ELSE ReachVia(S \cup {v \in Via : \E u \in S : v \in DirDependents(u)},
                  Via, k - 1)

\* The transitive dependents of u.
Descendants(u) == ReachVia({u}, Units, Cardinality(Units)) \ {u}

\* Those reached through nodes that are neither Excluded nor AssumeAlreadyApplied.
PlainDescendants(u) ==
    ReachVia({u}, {v \in Units : stack.modules[v].Flag = FlagNone},
             Cardinality(Units)) \ {u}

FailingAncestors(v) ==
    {u \in Units : node[u].outcome = Failure /\ v \in Descendants(u)}

RunOf(u) == Runs[IndexOfName(Runs, u)]

\* C2: in an ordered run (normal or reverse), for every edge u -> v of the
\* active direction whose two nodes invoked the backend, u is Finished and
\* its Run ended, no later than v's Run started.
C2_DependencyOrder ==
    OrderedRun =>
        \A v \in Units : \A u \in DirDeps(v) :
            (node[u].invoked /\ node[v].invoked) =>
                /\ node[u].status = Finished
                /\ HasName(Runs, u) /\ HasName(Runs, v)
                /\ HasEnded(RunOf(u))
                /\ RunOf(u).Ended <= RunOf(v).Started

\* A destroy run of a chain: /w/c, then /w/b, then /w/a ran, the clock having
\* moved in between.
C2_Witness ==
    /\ OrderedRun
    /\ stack.opts.TerraformCommand = CommandNameDestroy
    /\ stack.modules[PB].Dependencies = {PA}
    /\ stack.modules[PC].Dependencies = {PB}
    /\ \A u \in Units : node[u].invoked /\ node[u].status = Finished
    /\ RunOf(PC).Ended < RunOf(PA).Ended

\* C3: in every mode at most Parallelism nodes are Running.
C3_Parallelism ==
    sch.entry # EntryNone => RunningCount <= stack.opts.Parallelism

\* With Parallelism 1 and the order ignored, one node runs and two that
\* nothing else holds back are waiting for the pool.
C3_Witness ==
    /\ sch.entry = EntryRunModulesIgnoreOrder
    /\ stack.opts.Parallelism = 1
    /\ RunningCount = 1
    /\ Cardinality({u \in Units :
            node[u].status = Waiting /\ stack.modules[u].Flag = FlagNone}) = 2

\* What holds of a dependent v of a node that finished with Failure.
EarlyExited(v) ==
    /\ ~node[v].invoked
    /\ node[v].status = Finished =>
          /\ HasName(Runs, v)
          /\ RunOf(v).Result = ResultEarlyExit
          /\ RunOf(v).Cause \in FailingAncestors(v)

\* No node is early-exited without a failing ancestor.
NoEarlyExitWithoutAncestor ==
    \A v \in Units :
        (node[v].outcome = EarlyExit
            \/ (HasName(Runs, v) /\ RunOf(v).Result = ResultEarlyExit)) =>
                FailingAncestors(v) # {}

ActiveDependents(u) == {v \in Units : u \in ActiveDeps(sch.entry, v)}

\* C27: a node whose unit is Excluded never invokes the backend and has a Run
\* with result excluded; its dependents are not early-exited because of it
\* and run as if it had succeeded.
C27_ExcludedNode ==
    \A u \in Units : stack.modules[u].Flag = FlagExcluded =>
        /\ ~node[u].invoked
        /\ node[u].status # Running
        /\ node[u].status = Waiting => ~HasName(Runs, u)
        /\ node[u].status = Finished =>
              /\ node[u].outcome = Success
              /\ HasName(Runs, u)
              /\ RunOf(u).Result = ResultExcluded
              /\ RunOf(u).Reason \in {ReasonExcludeDir, ReasonExcludeBlock}
        /\ \A v \in Units :
              /\ node[v].outcome = EarlyExit => node[v].cause # u
              /\ (v \in ActiveDependents(u) /\ node[v].invoked) =>
                    node[u].status = Finished

\* /w/b, which depends on the excluded /w/a alone, ran to the end; /w/a has
\* its Run.
C27_Witness ==
    /\ sch.entry = EntryRunModules
    /\ stack.modules[PA].Flag = FlagExcluded
    /\ stack.modules[PB].Dependencies = {PA}
    /\ node[PA].status = Finished /\ ~node[PA].invoked
    /\ RunOf(PA).Result = ResultExcluded
    /\ node[PB].invoked /\ node[PB].status = Finished
    /\ node[PB].outcome = Success

\* C28: a node whose unit is AssumeAlreadyApplied never invokes the backend
\* and never has a Run; it is terminal Success at once, without waiting for
\* its dependencies, and its dependents run as after a success.
C28_AssumedNode ==
    \A u \in Units : stack.modules[u].Flag = FlagAssumeAlreadyApplied =>
        /\ ~node[u].invoked
        /\ node[u].status # Running
        /\ ~HasName(Runs, u)
        /\ node[u].outcome \in {OutcomeNone, Success}
        /\ node[u].status = Finished <=> node[u].outcome = Success
        /\ \A v \in Units :
              /\ node[v].outcome = EarlyExit => node[v].cause # u
              /\ (v \in ActiveDependents(u) /\ node[v].invoked) =>
                    node[u].status = Finished

\* /w/b is assumed applied and Finished while /w/a, which it depends on, has
\* not run yet; /w/c, which depends on /w/b alone, ran to the end and the
\* report holds no Run of /w/b.
C28_Witness ==
    /\ sch.entry = EntryRunModules
    /\ stack.modules[PB].Flag = FlagAssumeAlreadyApplied
    /\ stack.modules[PB].Dependencies = {PA}
    /\ stack.modules[PC].Dependencies = {PB}
    /\ node[PA].status = Waiting
    /\ node[PB].status = Finished
    /\ node[PC].invoked /\ node[PC].outcome = Success
    /\ HasName(Runs, PC) /\ ~HasName(Runs, PB)

\* C29: a Run that is early-exited because an ancestor failed has the reason
\* ancestor exit, and this reason is one of the Reason values of the report.
C29_AncestorExitReason ==
    \A i \in 1..Len(Runs) :
        Runs[i].Result = ResultEarlyExit =>
            /\ Runs[i].Reason = ReasonAncestorExit
            /\ Runs[i].Reason \in Reasons

\* The entry point the switch of Run picks for the options of the stack.
EntryFor(opts) ==
    IF opts.IgnoreDependencyOrder THEN EntryRunModulesIgnoreOrder
    ELSE IF opts.TerraformCommand = CommandNameDestroy
    THEN EntryRunModulesReverseOrder
    ELSE EntryRunModules

\* C30 as claimed: every call of Run invokes one entry point, ignore-order
\* when IgnoreDependencyOrder is set, else reverse-order for destroy, else
\* normal-order, with the configured Parallelism.
C30_AsClaimed ==
    [][(sch.entry = EntryNone /\ sch' # sch) =>
        /\ sch'.entry = EntryFor(stack.opts)
        /\ sch'.parallelism = stack.opts.Parallelism]_vars

\* C30, amended: the same of every call of Run that does not return the error
\* of os.MkdirAll from the preparation of the output folder; a call that does
\* invokes no entry point.
C30_OneEntryPoint ==
    [][(sch.entry = EntryNone /\ sch' # sch) =>
        IF sch'.err = ErrNone
        THEN /\ sch'.entry = EntryFor(stack.opts)
             /\ sch'.parallelism = stack.opts.Parallelism
             /\ sch'.entry \in {EntryRunModules, EntryRunModulesReverseOrder,
                                EntryRunModulesIgnoreOrder}
        ELSE /\ stack.opts.OutputFolder # ""
             /\ sch'.err = ErrMkdirAll
             /\ sch'.entry = EntryNone]_vars

\* A destroy with IgnoreDependencyOrder went to the ignore-order entry point.
C30_Witness ==
    /\ stack.opts.IgnoreDependencyOrder
    /\ stack.opts.TerraformCommand = CommandNameDestroy
    /\ sch.entry = EntryRunModulesIgnoreOrder
    /\ sch.parallelism = stack.opts.Parallelism

\* Run performed the operations of the modules in the order of the groups:
\* a module that invoked the backend did so after every module of an earlier
\* group that it waits for in the order of the groups had finished.
FollowsGroups(groups, order) ==
    \A i, j \in 1..Len(groups) : i < j =>
        \A u \in groups[i], v \in groups[j] :
            (u \in GraphDeps(order, v) /\ node[v].invoked) =>
                node[u].status = Finished

\* C31: the group order of GetModuleRunGraph for the command of the stack is
\* the order in which Run performs the operations for the same command and
\* options, dependencies first for every command but destroy, dependents
\* first for destroy.
C31_DeployOrder ==
    sch.entry # EntryNone =>
        FollowsGroups(GetModuleRunGraph(stack.opts.TerraformCommand),
                      toRunningModules(stack.opts.TerraformCommand))

(***************************************************************************)
(* Claims about the resolver, checked under ResolveSpec.                    *)
(***************************************************************************)
\* The units the resolution starts from and those their dependencies blocks
\* lead to.
DeclaredUnits ==
    ReachAlong({Dir(cfg.Paths[k]) : k \in 1..Len(cfg.Paths)},
               [u \in ResolveUnits |-> {cfg.Deps[u][k] : k \in 1..Len(cfg.Deps[u])}],
               Cardinality(ResolveUnits))

\* The declared dependencies of these units contain a cycle.
DeclaredCycle ==
    \E u \in DeclaredUnits :
        u \in ReachAlong({cfg.Deps[u][k] : k \in 1..Len(cfg.Deps[u])},
                  [v \in ResolveUnits |-> {cfg.Deps[v][k] : k \in 1..Len(cfg.Deps[v])}],
                  Cardinality(ResolveUnits))

\* C5: for units that are all on disk, parse and are not excluded, and whose
\* declared dependencies contain a cycle, createStackForTerragruntConfigPaths
\* returns DependencyCycle and no backend invocation is performed.
C5_CycleDetected ==
    (res.call # CallIdle /\ cfg.Fault = NoFault /\ DeclaredCycle) =>
        /\ res.call = CallReturned
        /\ res.err = DependencyCycleError
        /\ ~res.backend

\* C20: createStackForTerragruntConfigPaths called with no config path
\* returns ErrNoTerraformModulesFound with no unit parsed, no credentials
\* acquired and no cycle check run, and the stack keeps the modules it had.
C20_EmptyInput ==
    [][cfg.Paths = <<>> /\ res.call = CallIdle /\ res'.call # CallIdle =>
        /\ res'.call = CallReturned
        /\ res'.err = ErrNoTerraformModulesFound
        /\ res'.log = <<>>
        /\ res'.heap = <<>>
        /\ res'.modules = res.modules]_vars

\* The call with no config path returned on a stack that held modules.
C20_Witness ==
    /\ cfg.Paths = <<>>
    /\ res.call = CallReturned
    /\ res.err = ErrNoTerraformModulesFound
    /\ res.modules # <<>>

\* The last effect of the call.
LastEvent == res.log[Len(res.log)]

\* The effects the call had on the config path p.
EventsOn(p) == {k \in 1..Len(res.log) : res.log[k][2] = p}

\* The call ended with a ProcessingModuleError on a path that is not on disk:
\* nothing was done with the path and no phase after the resolution ran.
FailedOnMissing ==
    /\ res.err.UnderlyingError = ErrNotExist
    /\ res.err.ModulePath \in cfg.Fault.Missing
    /\ EventsOn(res.err.ModulePath) = {}
    /\ \A k \in 1..Len(res.log) :
          res.log[k][1] = EvPhase =>
              res.log[k][2] \in {PhaseResolveModules, PhaseResolveExternal}

\* The call ended with a ProcessingModuleError on a path that did not parse:
\* the failed parse is the last thing the call did.
FailedOnParse ==
    /\ res.err.UnderlyingError = ErrParse
    /\ res.err.ModulePath \in cfg.Fault.ParseFail
    /\ LastEvent = <<EvParse, res.err.ModulePath>>

\* C21: resolveModules returns ProcessingModuleError with the config path and
\* NotExist for a path that is not on disk, and with the path and the
\* parser's error for a path that does not parse; the error is returned at
\* the first failing path, no later path is processed and the whole
\* resolution fails with that error.
C21_ProcessingModuleError ==
    res.call # CallIdle =>
        /\ \A k \in 1..Len(res.log) :
              (res.log[k][1] = EvParse /\ res.log[k][2] \in cfg.Fault.ParseFail) =>
                  /\ k = Len(res.log)
                  /\ res.err = ProcessingModuleError(res.log[k][2], ErrParse)
        /\ res.err.kind = KindProcessingModuleError =>
              /\ FailedOnMissing \/ FailedOnParse
              /\ res.call = CallReturned
              /\ ~res.backend
        /\ (cfg.Paths # <<>> /\ cfg.Paths[1] \in cfg.Fault.Missing) =>
              /\ res.err = ProcessingModuleError(cfg.Paths[1], ErrNotExist)
              /\ res.log = <<<<EvPhase, PhaseResolveModules>>>>
              /\ res.heap = <<>>
        /\ (cfg.Paths # <<>> /\ cfg.Paths[1] \in cfg.Fault.ParseFail) =>
              /\ res.err = ProcessingModuleError(cfg.Paths[1], ErrParse)
              /\ res.log = <<<<EvPhase, PhaseResolveModules>>,
                             <<EvCreds, cfg.Paths[1]>>, <<EvParse, cfg.Paths[1]>>>>
              /\ res.heap = <<>>
        /\ \A i \in 1..Len(cfg.Paths) :
              (cfg.Paths[i] \in cfg.Fault.Missing /\ res.call = CallReturned) =>
                  res.err.kind = KindProcessingModuleError

\* The first of two paths failed and nothing was done with the second.
C21_Witness ==
    /\ res.call = CallReturned
    /\ Len(cfg.Paths) = 2
    /\ res.err = ProcessingModuleError(cfg.Paths[1], ErrParse)
    /\ EventsOn(cfg.Paths[2]) = {}

\* The TerraformModule structs the call created for the unit path p, in the
\* order of their creation.
UnitsCreatedFor(p) == {k \in 1..Len(res.heap) : res.heap[k].Path = p}

\* C22: during one resolution each unit path is turned into a TerraformModule
\* at most once, a path reached again being skipped. Stated of the calls that
\* return no error on units whose declared dependencies hold no cycle.
C22_OneUnitPerPath ==
    (res.call = CallReturned /\ res.err = NoError /\ ~DeclaredCycle) =>
        \A p \in ResolveUnits : Cardinality(UnitsCreatedFor(p)) <= 1

\* The directories of the config paths the call was given.
InputDirs == {Dir(cfg.Paths[k]) : k \in 1..Len(cfg.Paths)}

\* The unit d is reached only through the excluded unit p: it is no input and
\* no unit outside ExcludeDirs names it.
OnlyThrough(p, d) ==
    /\ cfg.Deps[p] = <<d>>
    /\ d \notin InputDirs
    /\ \A u \in ResolveUnits \ cfg.Fault.ExcludeDirs : cfg.Deps[u] # <<d>>

\* C23: for a config path whose directory is in ExcludeDirs,
\* resolveTerraformModule returns a module with FlagExcluded set before
\* credentials are acquired and the config is parsed, and no dependency of the
\* module is resolved on its behalf.
C23_ExcludedBeforeParsing ==
    res.call # CallIdle =>
        \A p \in cfg.Fault.ExcludeDirs :
            /\ EventsOn(GetDefaultConfigPath(p)) = {}
            /\ \A k \in UnitsCreatedFor(p) :
                  res.heap[k].FlagExcluded /\ res.heap[k].Paths = <<>>
            /\ (p \in InputDirs /\ res.call = CallReturned /\ res.err = NoError) =>
                  \E k \in 1..Len(res.modules) :
                      /\ res.modules[k].Path = p
                      /\ res.modules[k].FlagExcluded
                      /\ res.modules[k].Dependencies = {}
            /\ \A d \in ResolveUnits :
                  OnlyThrough(p, d) => UnitsCreatedFor(d) = {}

\* An excluded unit that declares a dependency is in the stack and its
\* dependency is not.
C23_Witness ==
    /\ res.call = CallReturned
    /\ res.err = NoError
    /\ PB \in cfg.Fault.ExcludeDirs
    /\ OnlyThrough(PB, PX)
    /\ UnitsCreatedFor(PB) # {}
    /\ \E k \in 1..Len(res.modules) :
          res.modules[k].Path = PB /\ res.modules[k].FlagExcluded

\* The call returned a stack.
StackCreated == res.call = CallReturned /\ res.err = NoError

\* confirmShouldApplyExternalDependency was called for the unit p.
Confirmed(p) == \E k \in 1..Len(res.log) : res.log[k] = <<EvConfirm, p>>

\* The units of the stack outside the working directory are confirmed when
\* IgnoreExternalDependencies is not set, and assumed applied exactly when the
\* answer was no; no confirmation is asked when it is set.
ExternalUnitsConfirmed ==
    StackCreated =>
        /\ \A k \in 1..Len(res.modules) :
              (~HasPathPrefix(res.modules[k].Path, WorkingDir)
                  /\ ~cfg.Confirm.IgnoreExternalDependencies) =>
                  /\ Confirmed(res.modules[k].Path)
                  /\ res.modules[k].AssumeAlreadyApplied
                        <=> res.modules[k].Path \in cfg.Confirm.Declined
        /\ cfg.Confirm.IgnoreExternalDependencies =>
              \A p \in ResolveUnits : ~Confirmed(p)

\* No TerraformModule of a unit inside the working directory is marked
\* AssumeAlreadyApplied, and none of the stack is.
InternalUnitsApplied ==
    StackCreated =>
        /\ \A k \in 1..Len(res.heap) :
              HasPathPrefix(res.heap[k].Path, WorkingDir) =>
                  ~res.heap[k].AssumeAlreadyApplied
        /\ \A k \in 1..Len(res.modules) :
              HasPathPrefix(res.modules[k].Path, WorkingDir) =>
                  ~res.modules[k].AssumeAlreadyApplied

\* C24: every external unit the external resolution adds is confirmed when
\* IgnoreExternalDependencies is false, and AssumeAlreadyApplied exactly when
\* the answer was no; with IgnoreExternalDependencies no confirmation is
\* asked; a unit inside the working directory is never AssumeAlreadyApplied.
C24_ExternalConfirmation == ExternalUnitsConfirmed /\ InternalUnitsApplied

\* The number of dependencies that follow the unit u on its chain of declared
\* dependencies, counted up to n.
RECURSIVE ChainLength(_, _)
ChainLength(u, n) ==
    IF n = 0 \/ cfg.Deps[u] = <<>> THEN 0
    ELSE 1 + ChainLength(cfg.Deps[u][1], n - 1)

\* The longest chain that starts at an input of the call; a chain that runs
\* into a cycle counts as longer than maxLevelsOfRecursion.
LongestChain ==
    LET n == maxLevelsOfRecursion + 1
    IN  IF \E u \in InputDirs : ChainLength(u, n) = n THEN n
        ELSE CHOOSE m \in 0..n :
                /\ \A u \in InputDirs : ChainLength(u, n) <= m
                /\ \E u \in InputDirs : ChainLength(u, n) = m

InStack(p) == \E k \in 1..Len(res.modules) : res.modules[k].Path = p

\* C25: resolveExternalDependenciesForModules returns InfiniteRecursion only
\* when the recursion goes deeper than maxLevelsOfRecursion; a chain of
\* external dependencies no longer than that resolves without this error and
\* every unit on the chain is in the returned set.
C25_RecursionDepth ==
    (res.call = CallReturned /\ cfg.Paths # <<>>) =>
        /\ res.err = InfiniteRecursionError =>
              LongestChain > maxLevelsOfRecursion
        /\ LongestChain <= maxLevelsOfRecursion =>
              /\ res.err # InfiniteRecursionError
              /\ cfg.Fault = NoFault =>
                    /\ res.err = NoError
                    /\ \A u \in DeclaredUnits : InStack(u)

\* The chain /w/a, /x/e, /x/f, /x/g of three external units resolved.
C25_Witness ==
    /\ StackCreated
    /\ cfg.Paths = <<GetDefaultConfigPath(PA)>>
    /\ cfg.Deps[PA] = <<PX>> /\ cfg.Deps[PX] = <<PY>> /\ cfg.Deps[PY] = <<PZ>>
    /\ cfg.Deps[PZ] = <<>>
    /\ InStack(PX) /\ InStack(PY) /\ InStack(PZ)

\* The phases of ResolveTerraformModules in the order of the source.
PhaseOrder ==
    <<PhaseResolveModules, PhaseResolveExternal, PhaseCrosslink,
      PhaseFlagIncludedDirs, PhaseFlagUnitsThatAreIncluded,
      PhaseFlagExcludedUnits, PhaseFlagUnitsThatRead, PhaseFlagExcludedDirs>>

\* The phases of ResolveTerraformModules the call ran, in the order it ran
\* them.
PhasesRun ==
    LET IsPhase(e) == e[1] = EvPhase /\ e[2] # PhaseCheckForCycles
        events == SelectSeq(res.log, IsPhase)
    IN  [k \in 1..Len(events) |-> events[k][2]]

\* The position in the log of the start of the phase ph, 0 if it did not run.
PhaseStart(ph) ==
    IF \E k \in 1..Len(res.log) : res.log[k] = <<EvPhase, ph>>
    THEN CHOOSE k \in 1..Len(res.log) : res.log[k] = <<EvPhase, ph>>
    ELSE 0

\* The phase an error of ResolveTerraformModules comes from.
FailedPhase ==
    CASE res.err.kind = KindProcessingModuleError ->
            {PhaseResolveModules, PhaseResolveExternal}
      [] res.err.kind = KindInfiniteRecursion -> {PhaseResolveExternal}
      [] res.err.kind = KindUnrecognizedDependency -> {PhaseCrosslink}
      [] OTHER -> {}

InternalCycle ==
    \E u \in DeclaredUnits \cap Units :
        u \in ReachAlong({cfg.Deps[u][k] : k \in 1..Len(cfg.Deps[u])} \cap Units,
                  [v \in ResolveUnits |->
                      IF v \in Units
                      THEN {cfg.Deps[v][k] : k \in 1..Len(cfg.Deps[v])} \cap Units
                      ELSE {}],
                  Cardinality(ResolveUnits))

\* C33: the resolution returns for every set of units, also for units
\* inside the working directory that depend on each other in a cycle: the
\* recursion of resolveModules and resolveDependenciesForModule ends.
C33_ResolutionReturns ==
    res.call # CallIdle => res.call = CallReturned

\* The recursion is without end only where units inside the working
\* directory declare a cycle.
C33_OnlyOnCycles ==
    res.call = CallCrashed => InternalCycle

\* The calls of confirmShouldApplyExternalDependency for the unit p.
ConfirmationsOf(p) == {k \in 1..Len(res.log) : res.log[k] = <<EvConfirm, p>>}

\* C34: during one resolution confirmShouldApplyExternalDependency is called
\* at most once for every external unit, also when several units of one
\* recursion level depend on it.
C34_ConfirmedOnce ==
    \A p \in ResolveUnits : Cardinality(ConfirmationsOf(p)) <= 1

\* C35: createStackForTerragruntConfigPaths installs a module set on the
\* stack only when it returns without error: after a call that failed (no
\* config path, an error of the resolution, a cycle) the stack holds the
\* modules it held before.
C35_InstalledOnSuccess ==
    [][res.call = CallIdle /\ res'.call = CallReturned /\ res'.err # NoError =>
        res'.modules = res.modules]_vars

\* The same for the failing calls that did not reach CheckForCycles.
C35_ExceptCycles ==
    [][/\ res.call = CallIdle
       /\ res'.call = CallReturned
       /\ res'.err \notin {NoError, DependencyCycleError}
       => res'.modules = res.modules]_vars

(***************************************************************************)
(* Claims about the summary, under SummarySpec.                             *)
(***************************************************************************)
AllEnded(runs) == \A i \in 1..Len(runs) : HasEnded(runs[i])

CountOf(runs, result) == Cardinality({i \in 1..Len(runs) : runs[i].Result = result})

MinStarted(runs) ==
    CHOOSE t \in {runs[i].Started : i \in 1..Len(runs)} :
        \A i \in 1..Len(runs) : t <= runs[i].Started

MaxEnded(runs) ==
    CHOOSE t \in {runs[i].Ended : i \in 1..Len(runs)} :
        \A i \in 1..Len(runs) : t >= runs[i].Ended

SummarizeContract(s, runs) ==
    /\ s.TotalUnits = Len(runs)
    /\ s.UnitsSucceeded = CountOf(runs, ResultSucceeded)
    /\ s.UnitsFailed = CountOf(runs, ResultFailed)
    /\ s.EarlyExits = CountOf(runs, ResultEarlyExit)
    /\ s.Excluded = CountOf(runs, ResultExcluded)
    /\ TotalDuration(s, runs) =
            IF runs = <<>> THEN 0 ELSE MaxEnded(runs) - MinStarted(runs)

\* C13: when Summarize returns on a report whose Runs have all been ended,
\* TotalUnits is the number of Runs, each per-result count is the number of
\* Runs with that result, and TotalDuration is the latest Ended minus the
\* earliest Started; on an empty report the counts and TotalDuration are 0.
C13_SummarizeTotals ==
    last.op = "Summarize" /\ AllEnded(Runs) => SummarizeContract(summary, Runs)

\* Summarize returned on two ended Runs with different results, the second of
\* the list started first.
C13_Witness ==
    /\ last.op = "Summarize"
    /\ Len(Runs) = 2
    /\ AllEnded(Runs)
    /\ Runs[1].Result # Runs[2].Result
    /\ Runs[1].Started > Runs[2].Started
    /\ summary.firstRunStart = Runs[2].Name
    /\ TotalDuration(summary, Runs) = 1

\* What a holder of the Summary s can observe: its fields and TotalDuration.
Observable(s, runs) ==
    <<s.TotalUnits, s.UnitsSucceeded, s.UnitsFailed, s.EarlyExits, s.Excluded,
      TotalDuration(s, runs)>>

\* C14: once Summarize has returned a Summary, no AddRun, EndRun or SortRuns
\* on the report changes what can be observed from that Summary, its counts
\* and its TotalDuration included.
C14_SummaryImmutable ==
    [][summary # <<>> /\ summary' = summary /\ last'.op # "Summarize"
        => Observable(summary, Runs') = Observable(summary, Runs)]_vars

\* The sum of the per-result counts of the Summary s.
CountedUnits(s) == s.UnitsSucceeded + s.UnitsFailed + s.EarlyExits + s.Excluded

\* C39: in the Summary that Summarize returns, TotalUnits is the sum of
\* UnitsSucceeded, UnitsFailed, EarlyExits and Excluded exactly when every
\* Run of the report has been ended with one of the four results; a Run that
\* was added and not ended is counted in TotalUnits and in no other count.
C39_TotalIsSum ==
    last.op = "Summarize" =>
        /\ summary.TotalUnits = CountedUnits(summary)
              <=> \A i \in 1..Len(Runs) : Runs[i].Result \in Results
        /\ summary.TotalUnits = Len(Runs)
        /\ CountedUnits(summary) =
              Cardinality({i \in 1..Len(Runs) : Runs[i].Result \in Results})

\* Summarize returned on a report of two Runs, one ended as failed and one
\* added and not ended: two units, one of them counted.
C39_Witness ==
    /\ last.op = "Summarize"
    /\ Len(Runs) = 2
    /\ \E i, j \in 1..2 :
        /\ Runs[i].Result = ResultFailed
        /\ Runs[j].Result = ResultNone /\ Runs[j].Ended = ZeroTime
    /\ summary.TotalUnits = 2
    /\ summary.UnitsFailed = 1
    /\ CountedUnits(summary) = 1

(***************************************************************************)
(* Claims about concurrent callers, under RaceSpec.                         *)
(***************************************************************************)
\* Goroutine g took a step of its call.
Moved(g) == [thr[g] EXCEPT !.seen = {}] # [thr'[g] EXCEPT !.seen = {}]

\* Goroutine g took a step that reads or modifies Runs: the body of AddRun,
\* EndRun or GetRun, a step of a sort, a row of WriteCSV, or a step of
\* SortRuns or Summarize, the first included.
Touches(g) ==
    /\ Moved(g)
    /\ \/ thr[g].pc \in {"body", "sort", "rows", "range", "update"}
       \/ thr'[g].op \in {"SortRuns", "Summarize"}

\* Goroutine g is in SortRuns, reordering Runs.
MidSort(g) == thr[g].pc = "sort" /\ thr'[g].pc = "sort"

\* C11: SortRuns holds the report's write lock for the whole of its mutation,
\* so that while one goroutine's SortRuns is reordering Runs no step of
\* another goroutine's AddRun, EndRun, GetRun, WriteCSV or Summarize reads or
\* modifies the Runs list.
C11_SortRunsExclusive ==
    [][\A g \in Goroutines :
        MidSort(g) => mu.w = g /\ \A h \in Goroutines \ {g} : ~Touches(h)]_vars

\* C12: Summarize reads Runs under the report's read lock and no AddRun or
\* SortRuns interleaves with it, so that the Summary it returns is the one of
\* the Runs list as it was at one instant of the call.
C12_SummarizeAtOneInstant ==
    \A g \in Goroutines :
        thr[g].op = "Summarize" =>
            /\ thr[g].pc # "done" => g \in mu.r
            /\ thr[g].pc = "done" => \E runs \in thr[g].seen : thr[g].sum = Summarize(runs, "")

\* The list of times never decreases.
NonDecreasing(times) ==
    \A k \in 2..Len(times) : times[k - 1] <= times[k]

\* C36: the rows WriteToFile writes are in non-decreasing order of Started,
\* also when AddRun appends Runs that NewRun made earlier while WriteToFile
\* is under way.
C36_RowsByStarted ==
    \A g \in Goroutines :
        thr[g].op = "WriteCSV" /\ thr[g].file => NonDecreasing(thr[g].rows)

(***************************************************************************)
(* Claims about the locks of concurrent callers, under LockSpec.            *)
(***************************************************************************)
\* Goroutine g holds the lock m, to write or to read.
Holds(m, g) == m.w = g \/ g \in m.r

\* Goroutine g is in a call of the Report.
InCall(g) == thr[g].pc # "done"

\* Goroutine g is in a call and waits for a lock.
Blocked(g) == InCall(g) /\ ~ENABLED LockStep(g)

\* C37: concurrent calls of AddRun, GetRun, EndRun, WriteCSV, WriteToFile
\* and Summarize on one Report never deadlock: while a goroutine is in a
\* call some goroutine in a call can take its next step. The lock of a Run
\* is only written under the report's write lock, WriteCSV keeps the read
\* lock of every Run it has written until it returns, and a goroutine that
\* has returned holds no lock.
C37_DeadlockFree ==
    /\ (\E g \in Goroutines : InCall(g)) =>
            \E g \in Goroutines : InCall(g) /\ ~Blocked(g)
    /\ \A g \in Goroutines, name \in LockRuns :
            mu.run[name].w = g => mu.rep.w = g /\ mu.rep.held
    /\ \A g \in Goroutines :
            thr[g].pc \in {"Rows", "Return"} =>
                \A k \in 1..Len(thr[g].locked) : g \in mu.run[thr[g].locked[k]].r
    /\ \A g \in Goroutines :
            ~InCall(g) =>
                /\ ~Holds(mu.rep, g)
                /\ \A name \in LockRuns : ~Holds(mu.run[name], g)

\* EndRun holds the report's lock and waits for the lock of a Run that a
\* Summarize holds to read, and the Summarize can go on.
C37_Witness ==
    \E g, h \in Goroutines :
        /\ thr[g].op = "EndRun" /\ thr[g].pc = "WaitRun"
        /\ Blocked(g)
        /\ thr[h].op = "Summarize" /\ h \in mu.run[thr[g].path].r
        /\ ~Blocked(h)

(***************************************************************************)
(* Claims about the export, under FileSpec.                                 *)
(***************************************************************************)
\* The text of an optional reason or cause: empty when there is none.
TextOf(v) == IF v = Nil THEN "" ELSE v

\* C15: when WriteCSV has written to a writer that took every write, the
\* output is the header record Name, Started, Ended, Result, Reason, Cause
\* and then one record per Run, in the order of Runs, whose Reason and Cause
\* fields are empty for a Run without one and the very string otherwise.
C15_CSVRows ==
    last.op = "WriteCSV" /\ last.path = <<0>> =>
        /\ last.err = ErrNone
        /\ Len(out) = Len(Runs) + 1
        /\ out[1] = <<"Name", "Started", "Ended", "Result", "Reason", "Cause">>
        /\ \A i \in 1..Len(Runs) :
            /\ Len(out[i + 1]) = 6
            /\ out[i + 1][1] = Runs[i].Name
            /\ out[i + 1][4] = Runs[i].Result
            /\ out[i + 1][5] = TextOf(Runs[i].Reason)
            /\ out[i + 1][6] = TextOf(Runs[i].Cause)

\* WriteCSV wrote a report of three Runs, one with a reason and a cause and
\* one with neither.
C15_Witness ==
    /\ last.op = "WriteCSV" /\ last.path = <<0>>
    /\ Len(out) = 4
    /\ \E i \in 1..Len(Runs) : Runs[i].Reason # Nil /\ Runs[i].Cause # Nil /\ out[i + 1][5] = ReasonRunError
    /\ \E i \in 1..Len(Runs) : Runs[i].Reason = Nil /\ Runs[i].Cause = Nil /\ out[i + 1][5] = ""

\* C16: during and after WriteToFile the destination holds what it held
\* before the call or the complete report, never a part of it; when the call
\* has returned an error it holds what it held before, when it has returned
\* success it holds the complete report.
C16_WriteToFileAtomic ==
    wtf.pc # "none" =>
        /\ fs[wtf.path] \in {wtf.before, Content(CSVRecords(Runs))}
        /\ wtf.pc = "returned" /\ wtf.err # ErrNone => fs[wtf.path] = wtf.before
        /\ wtf.pc = "returned" /\ wtf.err = ErrNone => fs[wtf.path] = Content(CSVRecords(Runs))

\* C17: the temporary file WriteToFile creates is in the directory of the
\* destination, and the step that returns success is the rename of that file
\* onto the destination.
C17_TempBesideDestination ==
    [][/\ wtf'.pc \in {"sort", "write", "close", "rename"} => wtf'.tmp.dir = wtf'.path.dir
       /\ wtf'.pc = "returned" /\ wtf'.err = ErrNone =>
            /\ wtf.pc = "rename"
            /\ fs'[wtf.path] = fs[wtf.tmp]
            /\ ~fs'[wtf.tmp].exists]_vars

(***************************************************************************)
(* Claims about the rendering, under RenderSpec.                            *)
(***************************************************************************)
\* What precedes the value on the entry line: prefix, label, separator and
\* padding.
Lead(line) == line.args[1] \o line.args[2] \o line.args[3] \o line.args[4]

\* The length of prefix, label and separator of the entry line.
Unpadded(line) == Len(line.args[1]) + Len(line.args[2]) + Len(line.args[3])

\* C18: in the summary written with a one-character padder, prefix, label,
\* separator and padding together are as long on every entry line as prefix,
\* label and separator of the longest label written, and no padding has a
\* negative number of characters, whatever the counts.
C18_Alignment ==
    last.op = "Write" /\ Len(summary.padder) = 1 =>
        \A i \in 2..Len(out) :
            /\ out[i].args[4] # PanicNegativeRepeat
            /\ Len(Lead(out[i])) >= Unpadded(out[i])
            /\ \A j \in 2..Len(out) : Len(Lead(out[i])) >= Unpadded(out[j])
            /\ \E j \in 2..Len(out) : Len(Lead(out[i])) = Unpadded(out[j])
            /\ out[i].text = Lead(out[i]) \o " " \o out[i].args[5] \o "\n"

\* A summary written with the padder ".": four entry lines, the longest
\* label Succeeded, Units padded with four characters.
C18_Witness ==
    /\ last.op = "Write"
    /\ summary.padder = "."
    /\ Len(out) = 5
    /\ summary.EarlyExits = 0
    /\ \E i \in 2..Len(out) : out[i].args[2] = unitsLabel /\ out[i].args[4] = "...."

\* The whole units of the duration d, the rest cut off.
TruncatedText(d) ==
    IF d.m = 0 /\ d.s = 0 /\ d.ns < 1000000 THEN ToString(d.ns \div 1000) \o "us"
    ELSE IF d.m = 0 /\ d.s = 0 THEN ToString(d.ns \div 1000000) \o "ms"
    ELSE IF d.m = 0 THEN ToString(d.s) \o "s"
    ELSE ToString(d.m) \o "m"

\* C19: TotalDurationString renders a duration below 1ms in whole
\* microseconds, from 1ms and below 1s in whole milliseconds, from 1s and
\* below 1min in whole seconds and from 1min in whole minutes, the number
\* being the duration in that unit with the fraction cut off.
C19_Truncated ==
    last.op = "TotalDurationString" => out = <<TruncatedText(summary.duration)>>

=============================================================================
